---- MODULE Spec2Model ----
(***************************************************************************)
(* State-machine model of the saturation engine of                        *)
(* Source/SaturationDSP.h: PinkNoiseGenerator, TiltEQ and both variants of *)
(* TubeSaturation (the low-pass/noise variant, lines 72-373, and the tilt  *)
(* variant, lines 472-598), driven as the plugin processor drives them.    *)
(*                                                                         *)
(* Numbers.  A float is an integer count of 1/Q (fixed point, truncating   *)
(* toward zero) in -FltMax..FltMax, or one of the IEEE specials Inf, NInf, *)
(* NaN.  An operation whose result leaves -FltMax..FltMax overflows to an  *)
(* infinity, as a float operation does past FLT_MAX; FltMax stands for     *)
(* FLT_MAX on a reduced range.  Frequencies and sample rates are whole Hz. *)
(***************************************************************************)
EXTENDS Integers, Sequences, FiniteSets, TLC

\* ------------------------------------------------------------------------
\* Bounds of the model
\* ------------------------------------------------------------------------
FltMax == 2000000       \* largest finite float, in units of 1/Q
MaxBlocks == 1          \* process() calls per behaviour

Q == 10 * 100           \* fixed-point unit: the float 1.0f

\* ------------------------------------------------------------------------
\* IEEE-754 arithmetic on the fixed-point floats
\* ------------------------------------------------------------------------
Inf == FltMax + 1
NInf == 0 - Inf
NaN == FltMax + 2

IsNaN(x) == x = NaN
IsInf(x) == x = Inf \/ x = NInf
IsFinite(x) == x >= 0 - FltMax /\ x <= FltMax

Abs(x) == IF x < 0 THEN 0 - x ELSE x
Sgn(x) == IF x < 0 THEN 0 - 1 ELSE IF x > 0 THEN 1 ELSE 0
\* sign of a float whose zero counts as +0
SgnZ(x) == IF x < 0 THEN 0 - 1 ELSE 1
\* integer division truncating toward zero (C++ float-to-fixed rounding)
TDiv(a, b) == Sgn(a) * Sgn(b) * (Abs(a) \div Abs(b))
\* an integer result brought back into the float range
Norm(x) == IF x > FltMax THEN Inf ELSE IF x < 0 - FltMax THEN NInf ELSE x

FNeg(a) == IF IsNaN(a) THEN NaN ELSE 0 - a
FAbs(a) == IF IsNaN(a) THEN NaN ELSE Abs(a)

FAdd(a, b) ==
    IF IsNaN(a) \/ IsNaN(b) THEN NaN
    ELSE IF IsInf(a) /\ IsInf(b) THEN (IF a = b THEN a ELSE NaN)
    ELSE IF IsInf(a) THEN a
    ELSE IF IsInf(b) THEN b
    ELSE Norm(a + b)

FSub(a, b) == FAdd(a, FNeg(b))

FMul(a, b) ==
    IF IsNaN(a) \/ IsNaN(b) THEN NaN
    ELSE IF IsInf(a) \/ IsInf(b)
         THEN (IF a = 0 \/ b = 0 THEN NaN
               ELSE IF Sgn(a) * Sgn(b) > 0 THEN Inf ELSE NInf)
    ELSE IF a = 0 \/ b = 0 THEN 0
    ELSE IF Abs(a) > (FltMax * Q) \div Abs(b)
         THEN (IF Sgn(a) * Sgn(b) > 0 THEN Inf ELSE NInf)
    ELSE TDiv(a * b, Q)

FDiv(a, b) ==
    IF IsNaN(a) \/ IsNaN(b) THEN NaN
    ELSE IF IsInf(a) /\ IsInf(b) THEN NaN
    ELSE IF IsInf(a) THEN (IF Sgn(a) * SgnZ(b) > 0 THEN Inf ELSE NInf)
    ELSE IF IsInf(b) THEN 0
    ELSE IF b = 0
         THEN (IF a = 0 THEN NaN ELSE IF a > 0 THEN Inf ELSE NInf)
    ELSE Norm(TDiv(a * Q, b))

\* a < b and a > b on floats: every comparison with NaN is false
FLess(a, b) == ~IsNaN(a) /\ ~IsNaN(b) /\ a < b
FGreater(a, b) == FLess(b, a)

\* juce::jmin (a, b) == (b < a) ? b : a
JMin(a, b) == IF FLess(b, a) THEN b ELSE a

\* ------------------------------------------------------------------------
\* <cmath> and juce::Decibels on the fixed-point floats
\* ------------------------------------------------------------------------

\* std::tanh: odd, monotone, |tanh| <= 1, tanh(0) = 0.  Pade approximant
\* x(27 + x^2) / (27 + 9 x^2), which meets +-1 at |x| = 3.
Tanh(x) ==
    IF IsNaN(x) THEN NaN
    ELSE IF x >= 3 * Q THEN Q
    ELSE IF x <= 0 - 3 * Q THEN 0 - Q
    ELSE LET x2 == FMul(x, x)
         IN  FDiv(FMul(x, 27 * Q + x2), 27 * Q + 9 * x2)

\* juce::MathConstants<float>::pi in units of 1/Q
Pi == 3142

\* std::tan: NaN at an infinity, period pi, Pade approximant
\* x(15 - x^2) / (15 - 6 x^2) on (-pi/2, pi/2].
Tan(x) ==
    IF IsNaN(x) \/ IsInf(x) THEN NaN
    ELSE LET r  == ((x + Pi \div 2) % Pi) - Pi \div 2
             r2 == FMul(r, r)
         IN  FDiv(FMul(r, 15 * Q - r2), 15 * Q - 6 * r2)

\* 10^(n/20) for n = 0..20, in units of 1/1000
Pow10Table ==
    << 1000, 1122, 1259, 1413, 1585, 1778, 1995, 2239, 2512, 2818, 3162,
       3548, 3981, 4467, 5012, 5623, 6310, 7079, 7943, 8913, 10000 >>

RECURSIVE ScaleByPow10(_, _)
\* v * 10^k on floats (k an integer)
ScaleByPow10(v, k) ==
    IF k = 0 \/ v = 0 \/ ~IsFinite(v) THEN v
    ELSE IF k > 0 THEN ScaleByPow10(Norm(v * 10), k - 1)
    ELSE ScaleByPow10(TDiv(v, 10), k + 1)

\* std::pow (10, db / 20): the table, interpolated linearly inside a dB
Pow10Over20(db) ==
    IF IsNaN(db) THEN NaN
    ELSE IF db = Inf THEN Inf
    ELSE IF db = NInf THEN 0
    ELSE LET k    == db \div (20 * Q)
             r    == db % (20 * Q)
             n    == r \div Q
             f    == r % Q
             lo   == Pow10Table[n + 1]
             hi   == Pow10Table[n + 2]
             mant == ((lo + ((hi - lo) * f) \div Q) * Q) \div 1000
         IN  ScaleByPow10(mant, k)

\* juce::Decibels::decibelsToGain (db), minusInfinityDb = -100
DecibelsToGain(db) ==
    IF FGreater(db, 0 - 100 * Q) THEN Pow10Over20(db) ELSE 0

RECURSIVE Exp(_)
\* std::exp: halving down to |x| <= 1/8, then 1 + x + x^2/2 + x^3/6
Exp(x) ==
    IF IsNaN(x) THEN NaN
    ELSE IF x = Inf THEN Inf
    ELSE IF x = NInf \/ x <= 0 - 7 * Q THEN 0
    ELSE IF Abs(x) <= Q \div 8
         THEN LET x2 == FMul(x, x)
              IN  FAdd(FAdd(Q + x, TDiv(x2, 2)), TDiv(FMul(x2, x), 6))
    ELSE LET h == Exp(TDiv(x, 2)) IN FMul(h, h)

\* ------------------------------------------------------------------------
\* Sequences as the engine's arrays (1-based; channel ch of the code is
\* index ch + 1)
\* ------------------------------------------------------------------------
Fill(n, v) == [i \in 1..n |-> v]

\* a resize that grows a vector and never shrinks it
ResizeGrowsOnly(vec, n, v) ==
    [i \in 1..(IF Len(vec) > n THEN Len(vec) ELSE n) |->
        IF i <= Len(vec) THEN vec[i] ELSE v]

\* std::vector<T>::resize (n, v): kept entries keep their value
Resize(vec, n, v) == [i \in 1..n |-> IF i <= Len(vec) THEN vec[i] ELSE v]

\* ------------------------------------------------------------------------
\* Program constants
\* ------------------------------------------------------------------------
numRows == 12                 \* PinkNoiseGenerator::numRows
bias == (15 * Q) \div 100     \* tubeWaveshape: 0.15f
floorRatio == (15 * Q) \div 100    \* addAnalogNoise: 0.15f
signalRatio == (85 * Q) \div 100   \* addAnalogNoise: 0.85f
pivotHz == 800                \* TiltEQ::updateCoefficients
RampMs == 20                  \* setRampDurationSeconds (0.02)
AttackTenthMs == 5            \* envelope attack, 0.0005 s
ReleaseTenthMs == 500         \* envelope release, 0.050 s
DefaultSampleRate == 44100    \* double sampleRate = 44100.0
DefaultNumChannels == 2       \* int numChannels = 2
DefaultToneFrequency == 12000 \* float toneFrequency = 12000.0f
DefaultNoiseHPFrequency == 80 \* float noiseHPFrequency = 80.0f
FilterQ == (707 * Q) \div 1000     \* makeLowPass (..., 0.707f)

\* ------------------------------------------------------------------------
\* State
\* ------------------------------------------------------------------------
VARIABLES
    variant,            \* "lowpass": TubeSaturation of lines 72-373;
                        \* "tilt": TubeSaturation of lines 472-598
    sampleRate, numChannels,
    mix, toneFrequency, noiseAmount, noiseHPFrequency, noiseHPAlpha,
    envelopeAttack, envelopeRelease,
    preGain, postGain,  \* juce::dsp::Gain<float>
    toneFilter,         \* ProcessorDuplicator<IIR::Filter, IIR::Coefficients>
    tiltEQ,             \* TiltEQ
    envelopeState, noiseHPState, noiseHPPrevInput,
    pinkNoise,          \* std::vector<PinkNoiseGenerator>
    dryBuffer,          \* juce::AudioBuffer<float>, [channel][sample]
    buffer,             \* the caller's buffer during a process() call
    pc,                 \* position of the process() call in flight
    prepared,           \* prepare() has run
    \* history variables: what a call did, for the properties
    blockIn,            \* the buffer as handed to process()
    toneOut,            \* the buffer as it left the tone filter
    postIn,             \* the buffer as it reached the output gain
    wet,                \* the buffer as it left the output gain
    stages,             \* the stages the call in flight has run, in order
    blended,            \* the dry/wet loop ran in the last mix stage
    oob,                \* the arrays the call in flight accessed outside
                        \* their bounds
    entry,              \* at the entry of the call in flight: whether its
                        \* preconditions held, and the array sizes
    lastNoise,          \* the last noise pass: its gain, and the largest
                        \* level and |value added| (in units of 1 / Q^2)
                        \* of the block
    lastCall,           \* the API call that last returned or began
    cleared,            \* the transient state the last reset() found
                        \* non-zero
    maximumBlockSize,   \* spec.maximumBlockSize of the last prepare()
    blocks,             \* process() calls so far
    reads,              \* the values the process() call has read: the
                        \* pre-gain and the post-gain per sample and, when
                        \* it is stepped beside the control thread, mix
                        \* at the test of line 562, mix per blended
                        \* sample, (a0, a1, b1) per filtered sample and
                        \* noiseAmount at lines 207 and 280
    control,            \* the control thread: its place in a setter, and
                        \* the locals of a setter in flight
    recomputed          \* the coefficients the last call computed anew

engineVars ==
    << sampleRate, numChannels, mix, toneFrequency, noiseAmount,
       noiseHPFrequency, noiseHPAlpha, envelopeAttack, envelopeRelease,
       preGain, postGain, toneFilter, tiltEQ, envelopeState, noiseHPState,
       noiseHPPrevInput, pinkNoise, dryBuffer >>
callVars ==
    << buffer, pc, blockIn, toneOut, postIn, wet, stages, blended,
       lastNoise, oob, entry, reads >>
historyVars ==
    << lastCall, cleared, maximumBlockSize, blocks, control, recomputed >>
vars == << variant, prepared, engineVars, callVars, historyVars >>

\* ------------------------------------------------------------------------
\* juce::Random as the generator sees it: the k-th nextFloat() of a
\* generator seeded with `seed` (the constructor seeds at random).  A seed
\* names one draw sequence; every value lies in [0, 1).
\* ------------------------------------------------------------------------
MaxFloat01 == Q - 1       \* the largest nextFloat(), just under 1.0f

SeedLow == "low"          \* 0, 0, 0, ...
SeedHigh == "high"        \* max, max, max, ...
SeedStep == "step"        \* 0 for the first StepAt draws, then max
SeedAlt == "alt"          \* 0, max, 0, max, ...

\* the first nextSample() call that redraws seven rows at once
StepCall == 2 ^ 6

RECURSIVE DrawsUpTo(_)
\* nextFloat() calls made by the first n nextSample() calls of a generator:
\* one per row whose counter bit flips, and one for the white sample
DrawsUpTo(n) ==
    IF n = 0 THEN 0
    ELSE DrawsUpTo(n - 1) + 1
         + Cardinality({ i \in 0..(numRows - 1) :
                          ((n - 1) \div 2 ^ i) % 2 # (n \div 2 ^ i) % 2 })

StepAt == DrawsUpTo(StepCall - 1)

Draw(seed, k) ==
    CASE seed = SeedLow  -> 0
      [] seed = SeedHigh -> MaxFloat01
      [] seed = SeedStep -> IF k < StepAt THEN 0 ELSE MaxFloat01
      [] OTHER           -> IF k % 2 = 0 THEN 0 ELSE MaxFloat01

\* random.nextFloat() * 2.0f - 1.0f
NextBipolar(random) == FSub(FMul(Draw(random.seed, random.pos), 2 * Q), Q)
Advance(random) == [random EXCEPT !.pos = random.pos + 1]

\* ------------------------------------------------------------------------
\* PinkNoiseGenerator (lines 18-62)
\* ------------------------------------------------------------------------
\* reset() without the statement of line 28
PinkResetKeepsSum(gen) ==
    [gen EXCEPT !.rows = Fill(numRows, 0), !.counter = 0]

\* reset() (lines 23-30)
PinkReset(gen) ==
    [gen EXCEPT !.rows = Fill(numRows, 0), !.runningSum = 0, !.counter = 0]

\* PinkNoiseGenerator(): reset(), and a freshly seeded juce::Random
PinkNew(seed) ==
    [rows |-> Fill(numRows, 0), runningSum |-> 0, counter |-> 0,
     random |-> [seed |-> seed, pos |-> 0]]

Pow2(i) == 2 ^ i

\* the highest bit that changed alone, as in the Voss-McCartney scheme that
\* redraws one row per sample
DiffBitHighestOnly(lastCounter, counter, i) ==
    /\ ((lastCounter \div Pow2(i)) % 2) # ((counter \div Pow2(i)) % 2)
    /\ ((lastCounter \div Pow2(i + 1)) % 2) = ((counter \div Pow2(i + 1)) % 2)

\* (lastCounter ^ counter) & (1 << i), for the non-negative counters the
\* bounds reach
DiffBit(lastCounter, counter, i) ==
    ((lastCounter \div Pow2(i)) % 2) # ((counter \div Pow2(i)) % 2)

RECURSIVE PinkRowsAddOnly(_, _, _)
\* the loop of lines 39-47 without the subtraction of line 43
PinkRowsAddOnly(gen, lastCounter, i) ==
    IF i >= numRows THEN gen
    ELSE IF DiffBit(lastCounter, gen.counter, i)
         THEN LET v == NextBipolar(gen.random)
                  g == [gen EXCEPT
                          !.runningSum = FAdd(gen.runningSum, v),
                          !.rows[i + 1] = v,
                          !.random = Advance(gen.random)]
              IN  PinkRowsAddOnly(g, lastCounter, i + 1)
    ELSE PinkRowsAddOnly(gen, lastCounter, i + 1)

RECURSIVE PinkRows(_, _, _)
\* the loop of lines 39-47 from row i on (i is the code's 0-based index),
\* on a generator whose counter is already incremented
PinkRows(gen, lastCounter, i) ==
    IF i >= numRows THEN gen
    ELSE IF DiffBit(lastCounter, gen.counter, i)
         THEN LET v == NextBipolar(gen.random)
                  g == [gen EXCEPT
                          !.runningSum = FAdd(FSub(gen.runningSum,
                                                   gen.rows[i + 1]), v),
                          !.rows[i + 1] = v,
                          !.random = Advance(gen.random)]
              IN  PinkRows(g, lastCounter, i + 1)
    ELSE PinkRows(gen, lastCounter, i + 1)

\* lines 50-53: the white sample added to the running sum of g
PinkWhite(g) ==
    [gen |-> [g EXCEPT !.random = Advance(g.random)],
     out |-> FDiv(FAdd(g.runningSum, NextBipolar(g.random)),
                  (numRows + 1) * Q)]

\* nextSample(): the generator after the call and the value returned
PinkNextSample(gen) ==
    PinkWhite(PinkRows([gen EXCEPT !.counter = gen.counter + 1],
                       gen.counter, 0))

\* ------------------------------------------------------------------------
\* juce::SmoothedValue<float, Linear> inside juce::dsp::Gain<float>
\* (preGain, postGain; used at lines 83-88, 120-121, 139, 145, 189, 213)
\* ------------------------------------------------------------------------
GainNew ==
    [current |-> 0, target |-> 0, countdown |-> 0, step |-> 0,
     stepsToTarget |-> 0, sampleRate |-> 0, rampMs |-> 0]

\* Gain::reset(): snap to the target, ramp length floor (ramp * sampleRate)
GainReset(g) ==
    IF g.sampleRate > 0
    THEN [g EXCEPT !.stepsToTarget = (g.rampMs * g.sampleRate) \div 1000,
                   !.current = g.target, !.countdown = 0]
    ELSE g

GainPrepare(g, sr) == GainReset([g EXCEPT !.sampleRate = sr])

GainSetRampDuration(g, ms) ==
    IF g.rampMs # ms THEN GainReset([g EXCEPT !.rampMs = ms]) ELSE g

\* SmoothedValue::setTargetValue written to take the new value at once
GainSetTargetAtOnce(g, v) ==
    [g EXCEPT !.target = v, !.current = v, !.countdown = 0]

\* SmoothedValue::setTargetValue
GainSetTarget(g, v) ==
    IF ~IsNaN(v) /\ v = g.target THEN g
    ELSE IF g.stepsToTarget <= 0
         THEN [g EXCEPT !.target = v, !.current = v, !.countdown = 0]
    ELSE LET d == FSub(v, g.current)
         IN  [g EXCEPT !.target = v, !.countdown = g.stepsToTarget,
                       !.step = IF IsFinite(d)
                                THEN TDiv(d, g.stepsToTarget) ELSE d]

GainSetDecibels(g, db) == GainSetTarget(g, DecibelsToGain(db))

\* SmoothedValue::getNextValue
GainNext(g) ==
    IF g.countdown <= 0 THEN [g |-> g, v |-> g.target]
    ELSE LET c   == g.countdown - 1
             cur == IF c > 0 THEN FAdd(g.current, g.step) ELSE g.target
         IN  [g |-> [g EXCEPT !.countdown = c, !.current = cur], v |-> cur]

RECURSIVE GainRun(_, _)
\* the loop over the samples, from the gain and the values so far
GainRun(acc, n) ==
    IF Len(acc.vals) = n THEN acc
    ELSE LET a == GainNext(acc.g)
         IN  GainRun([g |-> a.g, vals |-> Append(acc.vals, a.v)], n)

\* the next n gain values, one per sample, and the gain after them
GainValues(g, n) == GainRun([g |-> g, vals |-> << >>], n)

\* Gain::process: sample i of every channel times the i-th gain value
GainProcess(g, buf) ==
    LET n == IF Len(buf) = 0 THEN 0 ELSE Len(buf[1])
        r == GainValues(g, n)
    IN  [g |-> r.g, vals |-> r.vals,
         buf |-> [c \in 1..Len(buf) |->
                    [i \in 1..n |-> FMul(buf[c][i], r.vals[i])]]]

\* ------------------------------------------------------------------------
\* TubeSaturation::tubeWaveshape (lines 245-251, 581-587)
\* ------------------------------------------------------------------------
\* tubeWaveshape without the even-harmonic term
tubeWaveshapeOdd(x) == Tanh(x)

tubeWaveshape(x) ==
    LET saturated     == Tanh(x)
        evenHarmonics == FDiv(FMul(bias, FMul(x, x)), FAdd(Q, FAbs(x)))
    IN  FAdd(saturated, evenHarmonics)

\* ------------------------------------------------------------------------
\* The tone low-pass: juce::dsp::IIR (used at lines 91-92, 122, 204,
\* 329-336)
\* ------------------------------------------------------------------------
\* a whole-Hz quotient a / b as a float
HzRatio(a, b) ==
    IF b = 0 THEN (IF a = 0 THEN NaN ELSE IF a > 0 THEN Inf ELSE NInf)
    ELSE Norm(TDiv(a, b))

\* IIR::Coefficients<float>(): numerator 0, a0 = 1
IIRDefaultCoefficients == [b0 |-> 0, b1 |-> 0, b2 |-> 0, a1 |-> 0, a2 |-> 0]

\* IIR::Coefficients<float>::makeLowPass (sampleRate, frequency, 0.707f)
MakeLowPass(sr, frequency) ==
    LET n        == FDiv(Q, Tan(HzRatio(Pi * frequency, sr)))
        nSquared == FMul(n, n)
        invQ     == FDiv(Q, FilterQ)
        c1       == FDiv(Q, FAdd(FAdd(Q, FMul(invQ, n)), nSquared))
    IN  [b0 |-> c1, b1 |-> FMul(c1, 2 * Q), b2 |-> c1,
         a1 |-> FMul(FMul(c1, 2 * Q), FSub(Q, nSquared)),
         a2 |-> FMul(c1, FAdd(FSub(Q, FMul(invQ, n)), nSquared))]

IIRZeroState == [s1 |-> 0, s2 |-> 0]

\* IIR::Filter::processSample, order 2 (transposed direct form II)
IIRProcessSample(c, st, x) ==
    LET out == FAdd(FMul(c.b0, x), st.s1)
    IN  [st |-> [s1 |-> FAdd(FSub(FMul(c.b1, x), FMul(c.a1, out)), st.s2),
                 s2 |-> FSub(FMul(c.b2, x), FMul(c.a2, out))],
         out |-> out]

RECURSIVE IIRRun(_, _, _)
\* the loop over the samples, from the state and the output so far
IIRRun(c, acc, xs) ==
    IF Len(acc.out) = Len(xs) THEN acc
    ELSE LET a == IIRProcessSample(c, acc.st, xs[Len(acc.out) + 1])
         IN  IIRRun(c, [st |-> a.st, out |-> Append(acc.out, a.out)], xs)

\* one channel's samples through the filter: final state and output
IIRProcessChannel(c, st, xs) == IIRRun(c, [st |-> st, out |-> << >>], xs)

ToneFilterNew == [coeffs |-> IIRDefaultCoefficients, state |-> << >>]

\* ProcessorDuplicator::prepare: one filter per channel, each reset
ToneFilterPrepare(tf, n) == [tf EXCEPT !.state = Fill(n, IIRZeroState)]

\* toneFilter.reset() leaving the delay lines as they are
ToneFilterResetKeepsState(tf) == tf

\* toneFilter.reset() (line 122): every channel's delay line cleared
ToneFilterReset(tf) ==
    [tf EXCEPT !.state = Fill(Len(tf.state), IIRZeroState)]

\* the coefficients a call of updateToneFilter computes (lines 331-335)
ToneRecomputed(sr) == IF sr > 0 THEN {"toneFilter"} ELSE {}

\* TubeSaturation::updateToneFilter (lines 329-336)
updateToneFilter(tf, sr, frequency) ==
    IF sr > 0 THEN [tf EXCEPT !.coeffs = MakeLowPass(sr, frequency)] ELSE tf

\* TubeSaturation::updateNoiseHPCoefficients (lines 338-348), in doubles:
\* times are counted in units of 10^-8 s
TimeUnit == 10 ^ 8

\* the coefficients a call of updateNoiseHPCoefficients computes
\* (lines 340-347)
NoiseHPRecomputed(sr) == IF sr > 0 THEN {"noiseHPAlpha"} ELSE {}

updateNoiseHPCoefficients(alpha, sr, frequency) ==
    IF sr > 0
    THEN IF frequency = 0 THEN NaN      \* rc = inf, inf / (inf + dt)
         ELSE LET rc == TDiv((TimeUnit \div (2 * Pi)) * Q, frequency)
                  dt == TimeUnit \div sr
              IN  IF rc + dt = 0 THEN (IF rc > 0 THEN Inf ELSE NInf)
                  ELSE Norm(TDiv(rc * Q, rc + dt))
    ELSE alpha

\* std::exp (-1.0f / static_cast<float> (sampleRate * tau)), tau in tenths
\* of a millisecond (lines 100-101); near 1 the series is summed in
\* units of 10^-6 so that a coefficient just under 1.0f stays under it
EnvelopeCoefficient(sr, tauTenthMs) ==
    LET t == TDiv(sr * tauTenthMs, 10)        \* sampleRate * tau, in 1/1000
    IN  IF t = 0 THEN Exp(NInf)
        ELSE LET x6 == TDiv(0 - 10 ^ 9, t)    \* -1 / t, in 10^-6
             IN  IF Abs(x6) <= 46000
                 THEN TDiv((10 ^ 6 + x6 + (x6 * x6) \div (2 * 10 ^ 6)) * Q,
                           10 ^ 6)
                 ELSE Exp(TDiv(x6, 10 ^ 6 \div Q))

\* ------------------------------------------------------------------------
\* TiltEQ (lines 394-462)
\* ------------------------------------------------------------------------
TiltNew ==
    [sampleRate |-> DefaultSampleRate, tilt |-> 0,
     a0 |-> Q, a1 |-> 0, b1 |-> 0, x1 |-> << >>, y1 |-> << >>]

\* TiltEQ::updateCoefficients (lines 433-454)
TiltUpdateCoefficients(t) ==
    LET wc     == HzRatio(2 * Pi * pivotHz, t.sampleRate)
        gainDb == FMul(t.tilt, 6 * Q)
        g      == Pow10Over20(gainDb)
        tanW   == Tan(FMul(wc, Q \div 2))
        tt     == FDiv(tanW, g)
    IN  [t EXCEPT
           !.a0 = FDiv(FAdd(FMul(tanW, g), Q), FAdd(tt, Q)),
           !.a1 = FDiv(FSub(FMul(tanW, g), Q), FAdd(tt, Q)),
           !.b1 = FDiv(FSub(tt, Q), FAdd(tt, Q))]

\* TiltEQ::prepare (lines 399-405)
TiltPrepare(t, sr, n) ==
    TiltUpdateCoefficients([t EXCEPT !.sampleRate = sr,
                                     !.x1 = Resize(t.x1, n, 0),
                                     !.y1 = Resize(t.y1, n, 0)])

\* TiltEQ::reset (lines 407-411)
TiltReset(t) ==
    [t EXCEPT !.x1 = Fill(Len(t.x1), 0), !.y1 = Fill(Len(t.y1), 0)]

\* the coefficients a call of setTilt computes (lines 416-420)
TiltRecomputed(t, newTilt) ==
    IF FGreater(FAbs(FSub(newTilt, t.tilt)), Q \div 1000)
    THEN {"tiltEQ"} ELSE {}

\* setTilt() with a threshold of 0.01f
TiltSetTiltCoarse(t, newTilt) ==
    IF FGreater(FAbs(FSub(newTilt, t.tilt)), Q \div 100)
    THEN TiltUpdateCoefficients([t EXCEPT !.tilt = newTilt])
    ELSE t

\* TiltEQ::setTilt (lines 414-421); 0.001f is one unit of 1/Q
TiltSetTilt(t, newTilt) ==
    IF FGreater(FAbs(FSub(newTilt, t.tilt)), Q \div 1000)
    THEN TiltUpdateCoefficients([t EXCEPT !.tilt = newTilt])
    ELSE t

\* ------------------------------------------------------------------------
\* TubeSaturation: construction, prepare, reset, setters
\* ------------------------------------------------------------------------
Variants == {"lowpass", "tilt"}

\* the sizes of the per-channel arrays and of the dry buffer
Sizes ==
    [envelopeState |-> Len(envelopeState), noiseHPState |-> Len(noiseHPState),
     noiseHPPrevInput |-> Len(noiseHPPrevInput), pinkNoise |-> Len(pinkNoise),
     toneFilter |-> Len(toneFilter.state),
     x1 |-> Len(tiltEQ.x1), y1 |-> Len(tiltEQ.y1),
     dryChannels |-> Len(dryBuffer),
     drySamples |-> IF Len(dryBuffer) = 0 THEN 0 ELSE Len(dryBuffer[1])]

NoNoise == [gain |-> 0, level |-> 0, peak |-> 0, ran |-> FALSE]

\* no process() call to report on: no array has been measured
NoEntry == [ok |-> FALSE, sizes |-> [f \in DOMAIN Sizes |-> 0]]

\* nothing read yet
NoReads ==
    [pre |-> << >>, post |-> << >>, test |-> << >>, mix |-> << >>,
     coeffs |-> << >>, noise |-> << >>]

\* the control thread between two setter calls
ControlIdle == [at |-> "idle", next |-> << >>, calls |-> 0]

\* outside process() the engine holds no buffer, and nothing is on record
\* of a call to it
NoCall ==
    /\ buffer' = << >>
    /\ blockIn' = << >>
    /\ toneOut' = << >>
    /\ postIn' = << >>
    /\ wet' = << >>
    /\ stages' = << >>
    /\ blended' = FALSE
    /\ lastNoise' = NoNoise
    /\ oob' = {}
    /\ entry' = NoEntry
    /\ reads' = NoReads
    /\ pc' = pc

\* the state after TubeSaturation() (member initialisers, lines 350-372 and
\* 589-597)
Init ==
    /\ variant \in Variants
    /\ sampleRate = DefaultSampleRate
    /\ numChannels = DefaultNumChannels
    /\ mix = Q
    /\ toneFrequency = DefaultToneFrequency
    /\ noiseAmount = 0
    /\ noiseHPFrequency = DefaultNoiseHPFrequency
    /\ noiseHPAlpha = 0
    /\ envelopeAttack = 0
    /\ envelopeRelease = 0
    /\ preGain = GainNew
    /\ postGain = GainNew
    /\ toneFilter = ToneFilterNew
    /\ tiltEQ = TiltNew
    /\ envelopeState = << >>
    /\ noiseHPState = << >>
    /\ noiseHPPrevInput = << >>
    /\ pinkNoise = << >>
    /\ dryBuffer = << >>
    /\ buffer = << >>
    /\ pc = "idle"
    /\ prepared = FALSE
    /\ blockIn = << >>
    /\ toneOut = << >>
    /\ postIn = << >>
    /\ wet = << >>
    /\ stages = << >>
    /\ blended = FALSE
    /\ oob = {}
    /\ entry = NoEntry
    /\ lastNoise = NoNoise
    /\ lastCall = "construct"
    /\ cleared = {}
    /\ maximumBlockSize = 0
    /\ blocks = 0
    /\ reads = NoReads
    /\ control = ControlIdle
    /\ recomputed = {}

\* dryBuffer.setSize (numChannels, maximumBlockSize - 1)
DrySetSizeOneShort(ch, maxBlock) == Fill(ch, Fill(maxBlock - 1, 0))

\* dryBuffer.setSize (numChannels, maximumBlockSize); the fresh samples are
\* never read before copyFrom writes them, and are modelled as 0
DrySetSize(ch, maxBlock) == Fill(ch, Fill(maxBlock, 0))

\* pinkNoise.resize (numChannels) and the reset() of every generator
\* (lines 109-111): a generator the vector already holds keeps its random
PinkResize(gens, ch, seeds) ==
    [c \in 1..ch |->
        PinkReset(IF c <= Len(gens) THEN gens[c] ELSE PinkNew(seeds[c]))]

\* preGain.prepare (spec); preGain.setRampDurationSeconds (0.02)
PrepareGain(g, sr) == GainSetRampDuration(GainPrepare(g, sr), RampMs)

\* prepare (spec) (lines 77-116 and 477-496)
Prepare(sr, ch, maxBlock, seeds) ==
    /\ pc = "idle"
    /\ sampleRate' = sr
    /\ numChannels' = ch
    /\ preGain' = PrepareGain(preGain, sr)
    /\ postGain' = PrepareGain(postGain, sr)
    /\ dryBuffer' = DrySetSize(ch, maxBlock)
    /\ IF variant = "lowpass"
       THEN /\ toneFilter' =
                 updateToneFilter(ToneFilterPrepare(toneFilter, ch), sr,
                                  toneFrequency)
            /\ envelopeState' = Resize(envelopeState, ch, 0)
            /\ envelopeAttack' = EnvelopeCoefficient(sr, AttackTenthMs)
            /\ envelopeRelease' = EnvelopeCoefficient(sr, ReleaseTenthMs)
            /\ noiseHPState' = Resize(noiseHPState, ch, 0)
            /\ noiseHPPrevInput' = Resize(noiseHPPrevInput, ch, 0)
            /\ noiseHPAlpha' =
                 updateNoiseHPCoefficients(noiseHPAlpha, sr, noiseHPFrequency)
            /\ pinkNoise' = PinkResize(pinkNoise, ch, seeds)
            /\ recomputed' = ToneRecomputed(sr) \cup NoiseHPRecomputed(sr)
                                 \cup {"envelope"}
            /\ UNCHANGED tiltEQ
       ELSE /\ tiltEQ' = TiltPrepare(tiltEQ, sr, ch)
            /\ recomputed' = {"tiltEQ"}
            /\ UNCHANGED << toneFilter, envelopeState, envelopeAttack,
                            envelopeRelease, noiseHPState, noiseHPPrevInput,
                            noiseHPAlpha, pinkNoise >>
    /\ prepared' = TRUE
    /\ maximumBlockSize' = maxBlock
    /\ lastCall' = "prepare"
    /\ cleared' = {}
    /\ NoCall
    /\ UNCHANGED << variant, mix, toneFrequency, noiseAmount,
                    noiseHPFrequency, blocks, control >>

\* a float sequence holds a non-zero entry
NonZero(vec) == \E c \in 1..Len(vec) : vec[c] # 0

\* the transient state that is not zero
Dirty ==
    (IF NonZero(envelopeState) THEN {"envelopeState"} ELSE {})
    \cup (IF NonZero(noiseHPState) THEN {"noiseHPState"} ELSE {})
    \cup (IF NonZero(noiseHPPrevInput) THEN {"noiseHPPrevInput"} ELSE {})
    \cup (IF \E c \in 1..Len(pinkNoise) :
                \/ NonZero(pinkNoise[c].rows)
                \/ pinkNoise[c].runningSum # 0
                \/ pinkNoise[c].counter # 0
          THEN {"pinkNoise"} ELSE {})
    \cup (IF \E c \in 1..Len(toneFilter.state) :
                toneFilter.state[c] # IIRZeroState
          THEN {"toneFilter"} ELSE {})
    \cup (IF NonZero(tiltEQ.x1) \/ NonZero(tiltEQ.y1)
          THEN {"tiltEQ"} ELSE {})

\* reset() (lines 118-134 and 498-503)
Reset ==
    /\ pc = "idle"
    /\ preGain' = GainReset(preGain)
    /\ postGain' = GainReset(postGain)
    /\ IF variant = "lowpass"
       THEN /\ toneFilter' = ToneFilterReset(toneFilter)
            /\ envelopeState' = Fill(Len(envelopeState), 0)
            /\ noiseHPState' = Fill(Len(noiseHPState), 0)
            /\ noiseHPPrevInput' = Fill(Len(noiseHPPrevInput), 0)
            /\ pinkNoise' = [c \in 1..Len(pinkNoise) |-> PinkReset(pinkNoise[c])]
            /\ UNCHANGED tiltEQ
       ELSE /\ tiltEQ' = TiltReset(tiltEQ)
            /\ UNCHANGED << toneFilter, envelopeState, noiseHPState,
                            noiseHPPrevInput, pinkNoise >>
    /\ lastCall' = "reset"
    /\ cleared' = Dirty
    /\ UNCHANGED << variant, prepared, maximumBlockSize, sampleRate, numChannels, mix,
                    toneFrequency, noiseAmount, noiseHPFrequency,
                    noiseHPAlpha, envelopeAttack, envelopeRelease, dryBuffer,
                    blocks, control >>
    /\ recomputed' = {}
    /\ NoCall

\* what every setter leaves alone besides the engine fields it names
SetterFrame ==
    /\ pc = "idle"
    /\ lastCall' = "set"
    /\ cleared' = {}
    /\ NoCall
    /\ UNCHANGED << variant, prepared, maximumBlockSize, blocks, control >>

\* setDrive (driveDb) (lines 137-140, 506-509)
SetDrive(driveDb) ==
    /\ SetterFrame
    /\ recomputed' = {}
    /\ preGain' = GainSetDecibels(preGain, driveDb)
    /\ UNCHANGED << sampleRate, numChannels, mix, toneFrequency, noiseAmount,
                    noiseHPFrequency, noiseHPAlpha, envelopeAttack,
                    envelopeRelease, postGain, toneFilter, tiltEQ,
                    envelopeState, noiseHPState, noiseHPPrevInput, pinkNoise,
                    dryBuffer >>

\* setOutput (outputDb) (lines 143-146, 512-515)
SetOutput(outputDb) ==
    /\ SetterFrame
    /\ recomputed' = {}
    /\ postGain' = GainSetDecibels(postGain, outputDb)
    /\ UNCHANGED << sampleRate, numChannels, mix, toneFrequency, noiseAmount,
                    noiseHPFrequency, noiseHPAlpha, envelopeAttack,
                    envelopeRelease, preGain, toneFilter, tiltEQ,
                    envelopeState, noiseHPState, noiseHPPrevInput, pinkNoise,
                    dryBuffer >>

\* the value setMix stores for an argument
StoredMix(newMix) == newMix

\* setMix (newMix) (lines 149-152, 518-521)
SetMix(newMix) ==
    /\ SetterFrame
    /\ recomputed' = {}
    /\ mix' = StoredMix(newMix)
    /\ UNCHANGED << sampleRate, numChannels, toneFrequency, noiseAmount,
                    noiseHPFrequency, noiseHPAlpha, envelopeAttack,
                    envelopeRelease, preGain, postGain, toneFilter, tiltEQ,
                    envelopeState, noiseHPState, noiseHPPrevInput, pinkNoise,
                    dryBuffer >>

\* setTone (frequencyHz) of the low-pass variant (lines 155-159)
SetToneFrequency(frequencyHz) ==
    /\ variant = "lowpass"
    /\ SetterFrame
    /\ recomputed' = ToneRecomputed(sampleRate)
    /\ toneFrequency' = frequencyHz
    /\ toneFilter' = updateToneFilter(toneFilter, sampleRate, frequencyHz)
    /\ UNCHANGED << sampleRate, numChannels, mix, noiseAmount,
                    noiseHPFrequency, noiseHPAlpha, envelopeAttack,
                    envelopeRelease, preGain, postGain, tiltEQ,
                    envelopeState, noiseHPState, noiseHPPrevInput, pinkNoise,
                    dryBuffer >>

\* setTone (toneValue) of the tilt variant (lines 524-527)
SetToneTilt(toneValue) ==
    /\ variant = "tilt"
    /\ SetterFrame
    /\ recomputed' = TiltRecomputed(tiltEQ, toneValue)
    /\ tiltEQ' = TiltSetTilt(tiltEQ, toneValue)
    /\ UNCHANGED << sampleRate, numChannels, mix, toneFrequency, noiseAmount,
                    noiseHPFrequency, noiseHPAlpha, envelopeAttack,
                    envelopeRelease, preGain, postGain, toneFilter,
                    envelopeState, noiseHPState, noiseHPPrevInput, pinkNoise,
                    dryBuffer >>

\* setNoise (newNoise) (lines 162-165)
SetNoise(newNoise) ==
    /\ variant = "lowpass"
    /\ SetterFrame
    /\ recomputed' = {}
    /\ noiseAmount' = newNoise
    /\ UNCHANGED << sampleRate, numChannels, mix, toneFrequency,
                    noiseHPFrequency, noiseHPAlpha, envelopeAttack,
                    envelopeRelease, preGain, postGain, toneFilter, tiltEQ,
                    envelopeState, noiseHPState, noiseHPPrevInput, pinkNoise,
                    dryBuffer >>

\* setNoiseHP (frequencyHz) (lines 169-173)
SetNoiseHP(frequencyHz) ==
    /\ variant = "lowpass"
    /\ SetterFrame
    /\ recomputed' = NoiseHPRecomputed(sampleRate)
    /\ noiseHPFrequency' = frequencyHz
    /\ noiseHPAlpha' =
         updateNoiseHPCoefficients(noiseHPAlpha, sampleRate, frequencyHz)
    /\ UNCHANGED << sampleRate, numChannels, mix, toneFrequency, noiseAmount,
                    envelopeAttack, envelopeRelease, preGain, postGain,
                    toneFilter, tiltEQ, envelopeState, noiseHPState,
                    noiseHPPrevInput, pinkNoise, dryBuffer >>

\* ------------------------------------------------------------------------
\* TubeSaturation::process (lines 175-229 and 529-575).  Every stage is an
\* operator on the record `s` of what the call reads and writes: the
\* caller's buffer, the engine's mutable members, and a log of the call.
\* An access outside an array is undefined behaviour: the build may crash
\* (action ProcessCrash), or go on with the read returning some value `g`
\* and the write landing outside the engine's arrays.
\* ------------------------------------------------------------------------
NumChannelsOf(buf) == Len(buf)
NumSamplesOf(buf) == IF Len(buf) = 0 THEN 0 ELSE Len(buf[1])

\* element ch of a per-channel array, or the stray value g
At(vec, ch, g) == IF ch <= Len(vec) THEN vec[ch] ELSE g
\* the name of an array, if a loop over `channels` channels leaves it
Outside(vec, channels, name) == IF channels > Len(vec) THEN {name} ELSE {}

\* the state a process call starts from, for the buffer it is handed
AtEntry(buf) ==
    [buffer |-> buf, preGain |-> preGain, postGain |-> postGain,
     toneFilter |-> toneFilter, tiltEQ |-> tiltEQ,
     envelopeState |-> envelopeState, noiseHPState |-> noiseHPState,
     noiseHPPrevInput |-> noiseHPPrevInput, pinkNoise |-> pinkNoise,
     dryBuffer |-> dryBuffer, toneOut |-> << >>, postIn |-> << >>,
     wet |-> << >>,
     stages |-> << >>, blended |-> FALSE, lastNoise |-> NoNoise,
     oob |-> {}, preGains |-> << >>, postGains |-> << >>, done |-> 0]

\* dryBuffer.copyFrom (ch, 0, buffer, ch, 0, numSamples) for every channel
\* of the buffer (lines 181-182, 535-536)
CopyDry(dry, buf) ==
    [c \in 1..Len(dry) |->
        [i \in 1..Len(dry[c]) |->
            IF c <= Len(buf) /\ i <= Len(buf[c]) THEN buf[c][i] ELSE dry[c][i]]]

\* the dry copy at the top of process()
DryStage(s) ==
    [s EXCEPT
       !.dryBuffer = CopyDry(s.dryBuffer, s.buffer),
       !.oob = @ \cup Outside(s.dryBuffer, NumChannelsOf(s.buffer),
                              "dryBuffer.channel")
                 \cup (IF \E c \in 1..Len(s.dryBuffer) :
                             NumSamplesOf(s.buffer) > Len(s.dryBuffer[c])
                       THEN {"dryBuffer.sample"} ELSE {}),
       !.stages = Append(@, "dry")]

\* preGain.process (context) (lines 189, 543)
PreGainStage(s) ==
    LET r == GainProcess(s.preGain, s.buffer)
    IN  [s EXCEPT !.preGain = r.g, !.buffer = r.buf, !.preGains = r.vals,
                  !.stages = Append(@, "pre")]

\* TiltEQ::processSample (lines 423-430) on the delay line (x1, y1) of one
\* channel
TiltProcessSample(t, d, input) ==
    LET output == FSub(FAdd(FMul(t.a0, input), FMul(t.a1, d.x1)),
                       FMul(t.b1, d.y1))
    IN  [d |-> [x1 |-> input, y1 |-> output], out |-> output]

RECURSIVE ShapeTiltRun(_, _, _)
\* the loop over the samples, from the delay line and the output so far
ShapeTiltRun(t, acc, xs) ==
    IF Len(acc.out) = Len(xs) THEN acc
    ELSE LET a == TiltProcessSample(t, acc.d,
                                    tubeWaveshape(xs[Len(acc.out) + 1]))
         IN  ShapeTiltRun(t, [d |-> a.d, out |-> Append(acc.out, a.out)], xs)

\* the loop of lines 549-553 over one channel
ShapeTiltChannel(t, d, xs) == ShapeTiltRun(t, [d |-> d, out |-> << >>], xs)

\* a loop that keeps one state for all channels and stores it in every
\* entry
KeptShared(vec, r, field, channels) ==
    [c \in 1..Len(vec) |-> r[channels][field]]

\* the entries of a per-channel array after a loop over the buffer's
\* channels stored r[c][field] in entry c
Kept(vec, r, field, channels) ==
    [c \in 1..Len(vec) |-> IF c <= channels THEN r[c][field] ELSE vec[c]]

\* the waveshaping loop (lines 192-199), with the tilt EQ in the same loop
\* in the tilt variant (lines 546-554)
WaveshapeStage(s, g) ==
    IF variant = "lowpass"
    THEN [s EXCEPT
            !.buffer = [c \in 1..Len(s.buffer) |->
                          [i \in 1..Len(s.buffer[c]) |->
                              tubeWaveshape(s.buffer[c][i])]],
            !.stages = Append(@, "shape")]
    ELSE LET t == s.tiltEQ
             r == [c \in 1..Len(s.buffer) |->
                     ShapeTiltChannel(t, [x1 |-> At(t.x1, c, g),
                                          y1 |-> At(t.y1, c, g)],
                                      s.buffer[c])]
             d == [c \in 1..Len(s.buffer) |-> r[c].d]
             out == [c \in 1..Len(s.buffer) |-> r[c].out]
         IN  [s EXCEPT
                !.buffer = out,
                !.toneOut = out,
                !.tiltEQ = [t EXCEPT
                              !.x1 = Kept(t.x1, d, "x1", Len(s.buffer)),
                              !.y1 = Kept(t.y1, d, "y1", Len(s.buffer))],
                !.stages = @ \o << "shape", "tone" >>,
                !.oob = @ \cup Outside(t.x1, Len(s.buffer), "tiltEQ")]

\* toneFilter.process (filterContext) (line 204); the tilt variant has no
\* such statement
ToneStage(s, g) ==
    IF variant # "lowpass" THEN s
    ELSE
    LET f == s.toneFilter
        r == [c \in 1..Len(s.buffer) |->
                IIRProcessChannel(f.coeffs,
                                  At(f.state, c, [s1 |-> g, s2 |-> g]),
                                  s.buffer[c])]
        out == [c \in 1..Len(s.buffer) |-> r[c].out]
    IN  [s EXCEPT
           !.buffer = out,
           !.toneOut = out,
           !.toneFilter = [f EXCEPT
                             !.state = Kept(f.state, r, "st", Len(s.buffer))],
           !.stages = Append(@, "tone"),
           !.oob = @ \cup Outside(f.state, Len(s.buffer), "toneFilter")]

\* |a * b| before it is rounded to a float, in units of 1 / Q^2; NotANumber
\* unless both are finite
NotANumber == 0 - 1
Product(a, b) ==
    IF IsFinite(a) /\ IsFinite(b) THEN Abs(a) * Abs(b) ELSE NotANumber

\* an envelope follower that adds the weighted signal to the whole envelope
EnvelopeUnscaled(env, absSignal) ==
    IF FGreater(absSignal, env)
    THEN FAdd(env, FMul(FSub(Q, envelopeAttack), absSignal))
    ELSE FAdd(env, FMul(FSub(Q, envelopeRelease), absSignal))

\* the envelope follower of lines 300-303
Envelope(env, absSignal) ==
    IF FGreater(absSignal, env)
    THEN FAdd(FMul(envelopeAttack, env),
              FMul(FSub(Q, envelopeAttack), absSignal))
    ELSE FAdd(FMul(envelopeRelease, env),
              FMul(FSub(Q, envelopeRelease), absSignal))

\* the one-pole high-pass of line 311 on the raw noise
HighPassed(a, st, rawNoise) == FMul(a, FSub(FAdd(st.hpY, rawNoise), st.hpX))

\* noiseLevel of lines 317-318
NoiseLevelAt(gain, env) ==
    FMul(gain, FAdd(floorRatio, FMul(signalRatio, JMin(env, Q))))

\* the stores of lines 312-313 and the sum of line 320
NoiseAdded(x, env, n, filteredNoise, noiseLevel) ==
    [st |-> [env |-> env, hpY |-> filteredNoise, hpX |-> n.out,
             gen |-> n.gen],
     out |-> FAdd(x, FMul(filteredNoise, noiseLevel)),
     level |-> noiseLevel,
     added |-> Product(filteredNoise, noiseLevel)]

\* lines 311-320 once the envelope and the raw noise n.out are known
NoiseDrawn(gain, a, st, x, env, n) ==
    NoiseAdded(x, env, n, HighPassed(a, st, n.out), NoiseLevelAt(gain, env))

\* one pass of the sample loop of addAnalogNoise (lines 296-321) on the
\* state st = (env, hpY, hpX, gen) of one channel; `gain` is noiseGain and
\* `a` is noiseHPAlpha
NoiseSample(gain, a, st, x) ==
    NoiseDrawn(gain, a, st, x, Envelope(st.env, FAbs(x)),
               PinkNextSample(st.gen))

\* the larger magnitude of two floats (NaN counts as the largest)
MaxMag(a, b) ==
    IF IsNaN(a) \/ IsNaN(b) THEN NaN
    ELSE IF Abs(a) >= Abs(b) THEN Abs(a) ELSE Abs(b)

\* the larger of two products (NotANumber counts as the largest)
MaxProduct(a, b) ==
    IF a = NotANumber \/ b = NotANumber THEN NotANumber
    ELSE IF a >= b THEN a ELSE b

\* the pass h of one sample appended to the passes so far
NoiseKept(acc, h) ==
    [st |-> h.st, out |-> Append(acc.out, h.out),
     peak |-> MaxProduct(h.added, acc.peak),
     level |-> MaxMag(h.level, acc.level)]

RECURSIVE NoiseRun(_, _, _, _)
\* the loop over the samples, from the state, the output and the largest
\* noise level and |filteredNoise * noiseLevel| so far
NoiseRun(gain, a, acc, xs) ==
    IF Len(acc.out) = Len(xs) THEN acc
    ELSE NoiseRun(gain, a,
                  NoiseKept(acc, NoiseSample(gain, a, acc.st,
                                             xs[Len(acc.out) + 1])),
                  xs)

\* the sample loop over one channel: final state, output, and the largest
\* noise level and |filteredNoise * noiseLevel|
NoiseChannel(gain, a, st, xs) ==
    NoiseRun(gain, a, [st |-> st, out |-> << >>, peak |-> 0, level |-> 0], xs)

RECURSIVE MaxLevelOf(_, _)
\* the largest noise level of the first c channels
MaxLevelOf(r, c) ==
    IF c = 0 THEN 0 ELSE MaxMag(r[c].level, MaxLevelOf(r, c - 1))

RECURSIVE MaxPeakOf(_, _)
\* the largest |value added| of the first c channels
MaxPeakOf(r, c) ==
    IF c = 0 THEN 0 ELSE MaxProduct(r[c].peak, MaxPeakOf(r, c - 1))

\* noiseGain of addAnalogNoise (lines 280-281)
NoiseGain(amount) ==
    DecibelsToGain(FAdd(0 - 60 * Q, FMul(amount, 30 * Q)))

\* a PinkNoiseGenerator read outside the vector
StrayGenerator(g) ==
    [rows |-> Fill(numRows, g), runningSum |-> g, counter |-> 0,
     random |-> [seed |-> SeedLow, pos |-> 0]]

\* the test of line 207 written as noiseAmount >= 0.0f
NoiseEnabledAtZero(amount) == ~FLess(amount, 0) /\ ~IsNaN(amount)

\* the test of line 207
NoiseEnabled(amount) == FGreater(amount, 0)

\* a channel loop that starts every block from a zero envelope
NoiseChannelsFresh(s, g, gain) ==
    [c \in 1..Len(s.buffer) |->
        NoiseChannel(gain, noiseHPAlpha,
                     [env |-> 0,
                      hpY |-> At(s.noiseHPState, c, g),
                      hpX |-> At(s.noiseHPPrevInput, c, g),
                      gen |-> At(s.pinkNoise, c, StrayGenerator(g))],
                     s.buffer[c])]

\* the channel loop of addAnalogNoise (lines 288-326): per channel the
\* final state, the output and the largest level and |value added|
NoiseChannels(s, g, gain) ==
    [c \in 1..Len(s.buffer) |->
        NoiseChannel(gain, noiseHPAlpha,
                     [env |-> At(s.envelopeState, c, g),
                      hpY |-> At(s.noiseHPState, c, g),
                      hpX |-> At(s.noiseHPPrevInput, c, g),
                      gen |-> At(s.pinkNoise, c, StrayGenerator(g))],
                     s.buffer[c])]

\* the per-channel states of the results r
NoiseStates(r) == [c \in DOMAIN r |-> r[c].st]

\* the buffer and the members as the channel loop leaves them
NoiseStored(s, n, gain, r, st) ==
    [s EXCEPT
       !.buffer = [c \in 1..n |-> r[c].out],
       !.envelopeState = Kept(@, st, "env", n),
       !.noiseHPState = Kept(@, st, "hpY", n),
       !.noiseHPPrevInput = Kept(@, st, "hpX", n),
       !.pinkNoise = Kept(@, st, "gen", n),
       !.lastNoise = [gain |-> gain, ran |-> TRUE,
                      level |-> MaxLevelOf(r, n),
                      peak |-> MaxPeakOf(r, n)],
       !.stages = Append(@, "noise"),
       !.oob = @ \cup Outside(s.envelopeState, n, "envelopeState")
                 \cup Outside(s.noiseHPState, n, "noiseHPState")
                 \cup Outside(s.noiseHPPrevInput, n, "noiseHPPrevInput")
                 \cup Outside(s.pinkNoise, n, "pinkNoise")]

\* addAnalogNoise (lines 272-327) with noiseGain computed
NoiseRan(s, gain, r) == NoiseStored(s, Len(s.buffer), gain, r, NoiseStates(r))

\* addAnalogNoise (lines 272-327)
AddAnalogNoise(s, g, gain) == NoiseRan(s, gain, NoiseChannels(s, g, gain))

\* if (noiseAmount > 0.0f) addAnalogNoise (buffer) (lines 207-208);
\* the tilt variant has no such statement
NoiseStage(s, g) ==
    IF variant # "lowpass" \/ ~NoiseEnabled(noiseAmount) THEN s
    ELSE AddAnalogNoise(s, g, NoiseGain(noiseAmount))

\* postGain.process (outputContext) (lines 213, 559)
PostGainStage(s) ==
    LET r == GainProcess(s.postGain, s.buffer)
    IN  [s EXCEPT !.postGain = r.g, !.buffer = r.buf,
                  !.postGains = r.vals,
                  !.postIn = s.buffer, !.wet = r.buf,
                  !.stages = Append(@, "post")]

\* the test of lines 216 and 562 written as mix <= 1.0f
MixBlendsAtOne(m) == ~FGreater(m, Q) /\ ~IsNaN(m)

\* the test of lines 216 and 562
MixBlends(m) == FLess(m, Q)

\* wetData[i] = dryData[i] * (1.0f - mix) + wetData[i] * mix
Blend(dry, wetSample, m) ==
    FAdd(FMul(dry, FSub(Q, m)), FMul(wetSample, m))

\* dryData[i], or the stray value g outside the dry buffer
DryAt(dry, c, i, g) ==
    IF c <= Len(dry) /\ i <= Len(dry[c]) THEN dry[c][i] ELSE g

\* the dry/wet blend (lines 216-228, 562-574)
MixStage(s, g) ==
    IF MixBlends(mix)
    THEN [s EXCEPT
            !.buffer = [c \in 1..Len(s.buffer) |->
                          [i \in 1..Len(s.buffer[c]) |->
                              Blend(DryAt(s.dryBuffer, c, i, g),
                                    s.buffer[c][i], mix)]],
            !.blended = TRUE,
            !.stages = Append(@, "mix")]
    ELSE [s EXCEPT !.stages = Append(@, "mix")]

\* the statements of process() with the dry copy taken after the pre-gain
StageOrderGainFirst ==
    << "pre", "dry", "shape", "tone", "noise", "post", "mix" >>

\* the statements of process(), in the order they are written
StageOrder == << "dry", "pre", "shape", "tone", "noise", "post", "mix" >>

RunStage(stage, s, g) ==
    CASE stage = "dry"   -> DryStage(s)
      [] stage = "pre"   -> PreGainStage(s)
      [] stage = "shape" -> WaveshapeStage(s, g)
      [] stage = "tone"  -> ToneStage(s, g)
      [] stage = "noise" -> NoiseStage(s, g)
      [] stage = "post"  -> PostGainStage(s)
      [] stage = "mix"   -> MixStage(s, g)

RECURSIVE RunStages(_, _, _)
\* the stages of `order` not yet in the log of s, run in turn
RunStages(order, s, g) ==
    IF s.done = Len(order) THEN s
    ELSE RunStages(order,
                   [RunStage(order[s.done + 1], s, g)
                      EXCEPT !.done = s.done + 1],
                   g)

\* what a process call leaves alone whatever it does
ProcessFrame(buf) ==
    /\ pc = "idle"
    /\ blocks' = blocks + 1
    /\ lastCall' = "process"
    /\ cleared' = {}
    /\ recomputed' = {}
    /\ blockIn' = buf
    /\ entry' = [ok |-> /\ prepared
                        /\ NumChannelsOf(buf) <= numChannels
                        /\ NumSamplesOf(buf) <= maximumBlockSize,
                 sizes |-> Sizes]
    /\ UNCHANGED << variant, prepared, maximumBlockSize, sampleRate,
                    numChannels, mix, toneFrequency, noiseAmount,
                    noiseHPFrequency, noiseHPAlpha, envelopeAttack,
                    envelopeRelease, control >>

\* process (buffer), from entry to return
Process(buf, g) ==
    /\ ProcessFrame(buf)
    /\ \E s \in { RunStages(StageOrder, AtEntry(buf), g) } :
           /\ buffer' = s.buffer
           /\ preGain' = s.preGain
           /\ postGain' = s.postGain
           /\ toneFilter' = s.toneFilter
           /\ tiltEQ' = s.tiltEQ
           /\ envelopeState' = s.envelopeState
           /\ noiseHPState' = s.noiseHPState
           /\ noiseHPPrevInput' = s.noiseHPPrevInput
           /\ pinkNoise' = s.pinkNoise
           /\ dryBuffer' = s.dryBuffer
           /\ toneOut' = s.toneOut
           /\ postIn' = s.postIn
           /\ wet' = s.wet
           /\ stages' = s.stages
           /\ blended' = s.blended
           /\ lastNoise' = s.lastNoise
           /\ oob' = s.oob
           /\ reads' = [NoReads EXCEPT !.pre = s.preGains,
                                       !.post = s.postGains]
    /\ pc' = "idle"

\* process (buffer) reaching an access outside an array that ends the
\* program
ProcessCrash(buf) ==
    /\ ProcessFrame(buf)
    /\ \E s \in { RunStages(StageOrder, AtEntry(buf), 0) } :
           /\ s.oob # {}
           /\ oob' = s.oob
    /\ pc' = "ub"
    /\ UNCHANGED << buffer, preGain, postGain, toneFilter, tiltEQ,
                    envelopeState, noiseHPState, noiseHPPrevInput, pinkNoise,
                    dryBuffer, toneOut, postIn, wet, stages, blended,
                    lastNoise, reads >>

\* ------------------------------------------------------------------------
\* The host: the values it passes
\* ------------------------------------------------------------------------
MaxBlockSize == 2             \* spec.maximumBlockSize, and the block length

Huge == FltMax                \* a finite sample as large as a float gets
SampleRates == {44100}
ChannelCounts == {1, 2}
Seeds == {SeedAlt}
StrayValues == {0, NaN}

\* the first two samples of the blocks handed to process()
InputPairs == { << Q \div 2, 0 - Q >>, << Huge, Q \div 2 >> }

\* the buffers handed to process(): channels x n samples that repeat a
\* pair, the second channel starting at the pair's second sample
InputBlocks(channels, n) ==
    { [c \in 1..channels |-> [i \in 1..n |-> p[1 + ((c + i) % 2)]]] :
      p \in InputPairs }

\* prepare (spec) with any sample rate, channel count and seeds
HostPrepare ==
    \E sr \in SampleRates, ch \in ChannelCounts :
        \E seeds \in [1..ch -> Seeds] : Prepare(sr, ch, MaxBlockSize, seeds)

\* the buffer has no more channels and samples than every array that
\* process() indexes with them
Fits(buf) ==
    /\ NumChannelsOf(buf) <= Sizes.dryChannels
    /\ NumSamplesOf(buf) <= Sizes.drySamples
    /\ IF variant = "lowpass"
       THEN /\ NumChannelsOf(buf) <= Sizes.toneFilter
            /\ NumChannelsOf(buf) <= Sizes.envelopeState
            /\ NumChannelsOf(buf) <= Sizes.noiseHPState
            /\ NumChannelsOf(buf) <= Sizes.noiseHPPrevInput
            /\ NumChannelsOf(buf) <= Sizes.pinkNoise
       ELSE /\ NumChannelsOf(buf) <= Sizes.x1
            /\ NumChannelsOf(buf) <= Sizes.y1

\* process (buffer) with any block, run to its return or to a crash; no
\* stray value is read while the buffer fits the arrays
HostProcess ==
    /\ blocks < MaxBlocks
    /\ \E ch \in ChannelCounts :
         \E buf \in InputBlocks(ch, MaxBlockSize) :
             IF Fits(buf) THEN Process(buf, 0)
             ELSE \/ \E g \in StrayValues : Process(buf, g)
                  \/ ProcessCrash(buf)

\* ------------------------------------------------------------------------
\* The engine driven by a host that keeps every parameter in its documented
\* range, and sets the parameters before the first block
\* ------------------------------------------------------------------------
DriveDbs == {0}
OutputDbs == {0}
MixValues == {0, Q \div 2}
NoiseAmounts == {Q}

\* the setters, called before the first block
HostSetDrive == blocks = 0 /\ \E v \in DriveDbs : SetDrive(v)
HostSetOutput == blocks = 0 /\ \E v \in OutputDbs : SetOutput(v)
HostSetMix == blocks = 0 /\ \E v \in MixValues : SetMix(v)
HostSetNoise == blocks = 0 /\ \E v \in NoiseAmounts : SetNoise(v)

Next ==
    \/ HostPrepare
    \/ Reset
    \/ HostSetDrive
    \/ HostSetOutput
    \/ HostSetMix
    \/ HostSetNoise
    \/ HostProcess

Spec == Init /\ [][Next]_vars

\* ------------------------------------------------------------------------
\* The configuration calls alone, with arguments inside and outside the
\* documented ranges
\* ------------------------------------------------------------------------
AnyMixValues == {0 - Q \div 2, 0, Q \div 2, Q, (3 * Q) \div 2}
AnyToneFrequencies == {0, 1000, 20000}
AnyTiltValues == {0 - Q, Q, 2 * Q}
AnyNoiseAmounts == {0, Q}
AnyNoiseHPFrequencies == {0, 1000}

AnySetDrive == \E v \in DriveDbs : SetDrive(v)
AnySetMix == \E v \in AnyMixValues : SetMix(v)
AnySetToneFrequency == \E v \in AnyToneFrequencies : SetToneFrequency(v)
AnySetToneTilt == \E v \in AnyTiltValues : SetToneTilt(v)
AnySetNoise == \E v \in AnyNoiseAmounts : SetNoise(v)
AnySetNoiseHP == \E v \in AnyNoiseHPFrequencies : SetNoiseHP(v)

NextSetters ==
    \/ HostPrepare
    \/ Reset
    \/ AnySetDrive
    \/ AnySetMix
    \/ AnySetToneFrequency
    \/ AnySetToneTilt
    \/ AnySetNoise
    \/ AnySetNoiseHP

SpecSetters == Init /\ [][NextSetters]_vars

\* ------------------------------------------------------------------------
\* The noise pass of the low-pass variant over a long block of one
\* channel, within the documented ranges and the preconditions of process()
\* ------------------------------------------------------------------------
NoiseBlockSize == 64

NoiseSeeds == {SeedLow, SeedStep}
NoiseDriveDbs == {0, 20 * Q}
NoiseLevels == {Q \div 2, Q}
NoiseCutoffs == {1000}
InputLevels == {Q \div 10, Q}

InitNoise == Init /\ variant = "lowpass"

NoisePrepare ==
    \E sr \in SampleRates, seed \in NoiseSeeds :
        Prepare(sr, 1, NoiseBlockSize, << seed >>)
NoiseSetDrive == blocks = 0 /\ \E v \in NoiseDriveDbs : SetDrive(v)
NoiseSetNoise == blocks = 0 /\ \E v \in NoiseLevels : SetNoise(v)
NoiseSetNoiseHP == blocks = 0 /\ \E v \in NoiseCutoffs : SetNoiseHP(v)
NoiseProcess ==
    /\ blocks < MaxBlocks
    /\ \E level \in InputLevels :
           LET buf == << [i \in 1..NoiseBlockSize |-> level] >>
           IN  Fits(buf) /\ Process(buf, 0)

NextNoise ==
    \/ NoisePrepare
    \/ NoiseSetDrive
    \/ NoiseSetNoise
    \/ NoiseSetNoiseHP
    \/ NoiseProcess

SpecNoise == InitNoise /\ [][NextNoise]_vars

\* ------------------------------------------------------------------------
\* The configuration calls with any sample rate, positive or not
\* ------------------------------------------------------------------------
AnySampleRates == {0 - 44100, 0, 44100}

RatePrepare ==
    \E sr \in AnySampleRates, ch \in ChannelCounts :
        \E seeds \in [1..ch -> Seeds] : Prepare(sr, ch, MaxBlockSize, seeds)

NextRates ==
    \/ RatePrepare
    \/ AnySetToneFrequency
    \/ AnySetToneTilt
    \/ AnySetNoiseHP

SpecRates == Init /\ [][NextRates]_vars

\* ------------------------------------------------------------------------
\* The tilt variant with process() on the audio thread and setMix, setTone
\* on the control thread. The members are plain floats and nothing orders
\* the two threads, so the statements of one run between the statements of
\* the other: process() is stepped statement by statement, one pass of a
\* sample loop at a time, and TiltEQ::updateCoefficients one store at a time
\* ------------------------------------------------------------------------
RaceTiltValues == {0, Q}
MaxSetterCalls == 2           \* setter calls made while process() runs

\* what a step of process() leaves alone besides the buffer it works on
AudioFrame ==
    UNCHANGED << variant, prepared, maximumBlockSize, sampleRate,
                 numChannels, mix, toneFrequency, noiseAmount,
                 noiseHPFrequency, noiseHPAlpha, envelopeAttack,
                 envelopeRelease, toneFilter, envelopeState, noiseHPState,
                 noiseHPPrevInput, pinkNoise, lastCall, cleared, blocks,
                 blockIn, entry, lastNoise, oob, control, recomputed >>

\* process (buffer) from its entry to the sample loop: the dry copy and the
\* pre-gain (lines 535-543)
AudioBegin(buf) ==
    /\ variant = "tilt"
    /\ Fits(buf)
    /\ ProcessFrame(buf)
    /\ \E s \in { PreGainStage(DryStage(AtEntry(buf))) } :
           /\ buffer' = s.buffer
           /\ preGain' = s.preGain
           /\ dryBuffer' = s.dryBuffer
           /\ stages' = s.stages
           /\ oob' = s.oob
           /\ reads' = [NoReads EXCEPT !.pre = s.preGains]
    /\ toneOut' = << >>
    /\ postIn' = << >>
    /\ wet' = << >>
    /\ blended' = FALSE
    /\ lastNoise' = NoNoise
    /\ pc' = "shape"
    /\ UNCHANGED << postGain, toneFilter, tiltEQ, envelopeState,
                    noiseHPState, noiseHPPrevInput, pinkNoise >>

\* the sample a loop over the channels, then the samples, reaches after k
\* passes
LoopChannel(k, buf) == (k \div NumSamplesOf(buf)) + 1
LoopSample(k, buf) == (k % NumSamplesOf(buf)) + 1
LoopEnds(k, buf) == k + 1 = Len(buf) * NumSamplesOf(buf)

\* the delay line of channel c
DelayOf(t, c) == [x1 |-> t.x1[c], y1 |-> t.y1[c]]

\* one pass of the loop of lines 546-554, reading a0, a1 and b1 as they are
\* at that moment
AudioShapeSample ==
    /\ pc = "shape"
    /\ \E k \in { Len(reads.coeffs) } :
       \E c \in { LoopChannel(k, buffer) }, i \in { LoopSample(k, buffer) } :
       \E a \in { TiltProcessSample(tiltEQ, DelayOf(tiltEQ, c),
                                    tubeWaveshape(buffer[c][i])) } :
           /\ buffer' = [buffer EXCEPT ![c][i] = a.out]
           /\ tiltEQ' = [tiltEQ EXCEPT !.x1[c] = a.d.x1, !.y1[c] = a.d.y1]
           /\ reads' = [reads EXCEPT
                          !.coeffs = Append(@, << tiltEQ.a0, tiltEQ.a1,
                                                  tiltEQ.b1 >>)]
           /\ IF LoopEnds(k, buffer)
              THEN /\ pc' = "post"
                   /\ stages' = stages \o << "shape", "tone" >>
                   /\ toneOut' = [buffer EXCEPT ![c][i] = a.out]
              ELSE UNCHANGED << pc, stages, toneOut >>
    /\ AudioFrame
    /\ UNCHANGED << preGain, postGain, dryBuffer, postIn, wet, blended >>

\* postGain.process and the test of mix (lines 559-562)
AudioPostGain ==
    /\ pc = "post"
    /\ \E r \in { GainProcess(postGain, buffer) } :
           /\ postGain' = r.g
           /\ buffer' = r.buf
           /\ wet' = r.buf
           /\ reads' = [reads EXCEPT !.test = << mix >>, !.post = r.vals]
    /\ postIn' = buffer
    /\ IF MixBlends(mix)
       THEN /\ pc' = "blend"
            /\ stages' = Append(stages, "post")
       ELSE /\ pc' = "idle"
            /\ stages' = stages \o << "post", "mix" >>
    /\ AudioFrame
    /\ UNCHANGED << preGain, tiltEQ, dryBuffer, toneOut, blended >>

\* one pass of the loop of lines 564-573, reading mix as it is at that
\* moment (line 571)
AudioBlendSample ==
    /\ pc = "blend"
    /\ \E k \in { Len(reads.mix) } :
       \E c \in { LoopChannel(k, buffer) }, i \in { LoopSample(k, buffer) } :
           /\ buffer' = [buffer EXCEPT
                           ![c][i] = Blend(dryBuffer[c][i], buffer[c][i],
                                           mix)]
           /\ reads' = [reads EXCEPT !.mix = Append(@, mix)]
           /\ IF LoopEnds(k, buffer)
              THEN /\ pc' = "idle"
                   /\ stages' = Append(stages, "mix")
              ELSE UNCHANGED << pc, stages >>
    /\ blended' = TRUE
    /\ AudioFrame
    /\ UNCHANGED << preGain, postGain, tiltEQ, dryBuffer, toneOut, postIn,
                    wet >>

\* what a step of a setter on the control thread leaves alone besides mix,
\* the tilt EQ and its own place; the setters modelled are those called
\* while process() runs
ControlFrame ==
    UNCHANGED << variant, prepared, maximumBlockSize, sampleRate,
                 numChannels, toneFrequency, noiseAmount, noiseHPFrequency,
                 noiseHPAlpha, envelopeAttack, envelopeRelease, preGain,
                 postGain, toneFilter, envelopeState, noiseHPState,
                 noiseHPPrevInput, pinkNoise, dryBuffer, callVars, lastCall,
                 cleared, blocks, recomputed >>

\* setMix (newMix) on the control thread: the store of line 520
ControlSetMix ==
    /\ pc # "idle"
    /\ control.at = "idle"
    /\ control.calls < MaxSetterCalls
    /\ \E v \in MixValues : mix' = StoredMix(v)
    /\ control' = [control EXCEPT !.calls = @ + 1]
    /\ ControlFrame
    /\ UNCHANGED tiltEQ

\* the coefficients updateCoefficients is about to store
Pending(t) == << t.a0, t.a1, t.b1 >>

\* setTone (toneValue) on the control thread, up to the first store of
\* updateCoefficients: the test and the store of tilt (lines 416-418) and
\* the locals of lines 436-448
ControlSetTone ==
    /\ pc # "idle"
    /\ variant = "tilt"
    /\ control.at = "idle"
    /\ control.calls < MaxSetterCalls
    /\ \E v \in RaceTiltValues :
           /\ FGreater(FAbs(FSub(v, tiltEQ.tilt)), Q \div 1000)
           /\ tiltEQ' = [tiltEQ EXCEPT !.tilt = v]
           /\ control' =
                 [at |-> "a0", calls |-> control.calls + 1,
                  next |-> Pending(TiltUpdateCoefficients(
                                       [tiltEQ EXCEPT !.tilt = v]))]
    /\ ControlFrame
    /\ UNCHANGED mix

\* the stores of lines 451, 452 and 453, one at a time
ControlStoreA0 ==
    /\ control.at = "a0"
    /\ tiltEQ' = [tiltEQ EXCEPT !.a0 = control.next[1]]
    /\ control' = [control EXCEPT !.at = "a1"]
    /\ ControlFrame
    /\ UNCHANGED mix

ControlStoreA1 ==
    /\ control.at = "a1"
    /\ tiltEQ' = [tiltEQ EXCEPT !.a1 = control.next[2]]
    /\ control' = [control EXCEPT !.at = "b1"]
    /\ ControlFrame
    /\ UNCHANGED mix

ControlStoreB1 ==
    /\ control.at = "b1"
    /\ tiltEQ' = [tiltEQ EXCEPT !.b1 = control.next[3]]
    /\ control' = [control EXCEPT !.at = "idle", !.next = << >>]
    /\ ControlFrame
    /\ UNCHANGED mix

\* prepare (spec), setDrive, setOutput and setMix before anything runs
\* beside them
RacePrepare == ~prepared /\ HostPrepare
RaceSetDrive == ~prepared /\ HostSetDrive
RaceSetOutput == ~prepared /\ HostSetOutput
RaceSetMix == ~prepared /\ HostSetMix

\* process (buffer) entered with any block that fits
RaceProcess ==
    /\ blocks < MaxBlocks
    /\ \E ch \in ChannelCounts :
           \E buf \in InputBlocks(ch, MaxBlockSize) : AudioBegin(buf)

InitRace == Init /\ variant = "tilt"

NextRace ==
    \/ RacePrepare
    \/ RaceSetDrive
    \/ RaceSetOutput
    \/ RaceSetMix
    \/ RaceProcess
    \/ AudioShapeSample
    \/ AudioPostGain
    \/ AudioBlendSample
    \/ ControlSetMix
    \/ ControlSetTone
    \/ ControlStoreA0
    \/ ControlStoreA1
    \/ ControlStoreB1

SpecRace == InitRace /\ [][NextRace]_vars

\* ------------------------------------------------------------------------
\* The gains over several blocks, at a sample rate at which the 20 ms ramp
\* is four samples long: a ramp begun in one block of two samples ends in
\* the next
\* ------------------------------------------------------------------------
RampRates == {200}
RampDriveDbs == {0, 20 * Q}
RampOutputDbs == {0 - 6 * Q, 0}
MaxRampBlocks == 2            \* process() calls per behaviour

RampPrepare ==
    /\ ~prepared
    /\ \E sr \in RampRates, ch \in ChannelCounts :
           \E seeds \in [1..ch -> Seeds] : Prepare(sr, ch, MaxBlockSize, seeds)

RampSetDrive == \E v \in RampDriveDbs : SetDrive(v)
RampSetOutput == blocks = 0 /\ \E v \in RampOutputDbs : SetOutput(v)

RampProcess ==
    /\ prepared
    /\ blocks < MaxRampBlocks
    /\ \E buf \in InputBlocks(numChannels, MaxBlockSize) :
           Fits(buf) /\ Process(buf, 0)

NextRamp ==
    \/ RampPrepare
    \/ RampSetDrive
    \/ RampSetOutput
    \/ RampProcess

SpecRamp == Init /\ [][NextRamp]_vars

\* ------------------------------------------------------------------------
\* The tilt variant over several blocks, the tone set between them
\* ------------------------------------------------------------------------
TiltValues == {0 - Q, 0, Q}
MaxTiltBlocks == 2            \* process() calls per behaviour

TiltSetTone == \E v \in TiltValues : SetToneTilt(v)

TiltProcess ==
    /\ prepared
    /\ blocks < MaxTiltBlocks
    /\ \E ch \in ChannelCounts :
           \E buf \in InputBlocks(ch, MaxBlockSize) :
               Fits(buf) /\ Process(buf, 0)

NextTilt ==
    \/ RacePrepare
    \/ RaceSetDrive
    \/ RaceSetOutput
    \/ TiltSetTone
    \/ TiltProcess

SpecTilt == InitRace /\ [][NextTilt]_vars

\* ------------------------------------------------------------------------
\* Both variants over several blocks, with the drive and the output at
\* 0 dB, the mix at its default of 100 %, no noise, and the tone set
\* anywhere in its range
\* ------------------------------------------------------------------------
FlatProcess ==
    /\ prepared
    /\ blocks < MaxTiltBlocks
    /\ \E ch \in ChannelCounts :
           \E buf \in InputBlocks(ch, MaxBlockSize) :
               Fits(buf) /\ Process(buf, 0)

NextFlat ==
    \/ RacePrepare
    \/ HostSetDrive
    \/ HostSetOutput
    \/ AnySetToneFrequency
    \/ TiltSetTone
    \/ FlatProcess

SpecFlat == Init /\ [][NextFlat]_vars

\* ------------------------------------------------------------------------
\* The tilt variant fed a 1 kHz sine of amplitude 0.5 at 44.1 kHz, mono,
\* 1024 samples in blocks of 32, the drive at 0 dB or 20 dB
\* ------------------------------------------------------------------------
SineBlockSize == 32           \* samples per block
MaxSineBlocks == 32           \* process() calls per behaviour
SineDriveDbs == {0, 20 * Q}

\* twice the product of the distances of sample i from the two zero
\* crossings around it, in 882ths of a period (1 kHz at 44.1 kHz is 20/882
\* of a period per sample), and the sign of the half-period it is in
SineArc(i) == ((20 * i) % 441) * (441 - ((20 * i) % 441))
SineSign(i) == IF (20 * i) % 882 < 441 THEN 1 ELSE 0 - 1

\* 0.5 * sin (2 pi 1000 i / 44100), by Bhaskara's approximation
\* sin (pi u) = 16 u (1 - u) / (5 - 4 u (1 - u))
SineSample(i) ==
    SineSign(i) * ((8 * Q * SineArc(i)) \div (5 * 441 * 441 - 4 * SineArc(i)))

\* block k (from 0) of the sine, one channel
SineBlock(k) ==
    << [i \in 1..SineBlockSize |-> SineSample(k * SineBlockSize + i - 1)] >>

SinePrepare ==
    /\ ~prepared
    /\ \E seeds \in [1..1 -> Seeds] : Prepare(44100, 1, SineBlockSize, seeds)

SineSetDrive == blocks = 0 /\ \E v \in SineDriveDbs : SetDrive(v)

SineProcess ==
    /\ prepared
    /\ blocks < MaxSineBlocks
    /\ Fits(SineBlock(blocks))
    /\ Process(SineBlock(blocks), 0)

NextSine ==
    \/ SinePrepare
    \/ SineSetDrive
    \/ HostSetOutput
    \/ SineProcess

SpecSine == InitRace /\ [][NextSine]_vars

\* ------------------------------------------------------------------------
\* Both variants processing one block of samples of any size: none, the
\* smallest there is, ordinary ones, and one whose square is beyond the
\* largest float
\* ------------------------------------------------------------------------
ShapeInputs == {0, 1, 0 - 1, 500, 0 - Q, 5 * Q, 50 * Q, 0 - 50 * Q}

ShapeProcess ==
    /\ prepared
    /\ blocks = 0
    /\ \E xs \in [1..MaxBlockSize -> ShapeInputs] :
           Fits(<< xs >>) /\ Process(<< xs >>, 0)

NextShape ==
    \/ RacePrepare
    \/ HostSetDrive
    \/ HostSetOutput
    \/ ShapeProcess

SpecShape == Init /\ [][NextShape]_vars

\* ------------------------------------------------------------------------
\* The low-pass variant with the noise on or off, over blocks of signal and
\* of silence with reset() between them
\* ------------------------------------------------------------------------
MaxQuietBlocks == 2           \* process() calls per behaviour

\* channels x n samples of silence
ZeroBlock(channels, n) == [c \in 1..channels |-> [i \in 1..n |-> 0]]

QuietPrepare == variant = "lowpass" /\ RacePrepare

QuietProcess ==
    /\ prepared
    /\ blocks < MaxQuietBlocks
    /\ \E ch \in ChannelCounts :
           \E buf \in InputBlocks(ch, MaxBlockSize)
                          \cup {ZeroBlock(ch, MaxBlockSize)} :
               Fits(buf) /\ Process(buf, 0)

NextQuiet ==
    \/ QuietPrepare
    \/ RaceSetDrive
    \/ RaceSetOutput
    \/ AnySetNoise
    \/ Reset
    \/ QuietProcess

SpecQuiet == InitNoise /\ [][NextQuiet]_vars

\* ------------------------------------------------------------------------
\* One PinkNoiseGenerator on its own: constructed, reset and asked for
\* samples. pinkNoise holds the generator, buffer the sample returned last
\* ------------------------------------------------------------------------
MaxPinkCalls == 34            \* nextSample() calls between two reset()s
MaxPinkDraws == 110           \* nextFloat() calls of one generator

PinkSeeds == {SeedLow, SeedHigh, SeedAlt}

\* what a call on the generator leaves alone
PinkFrame ==
    /\ pc = "idle"
    /\ variant = "lowpass"
    /\ UNCHANGED << variant, prepared, sampleRate, numChannels, mix,
                    toneFrequency, noiseAmount, noiseHPFrequency,
                    noiseHPAlpha, envelopeAttack, envelopeRelease, preGain,
                    postGain, toneFilter, tiltEQ, envelopeState,
                    noiseHPState, noiseHPPrevInput, dryBuffer, pc, blockIn,
                    toneOut, postIn, wet, stages, blended, lastNoise, oob,
                    entry, reads, cleared, maximumBlockSize, blocks, control,
                    recomputed >>

\* PinkNoiseGenerator() (line 21), seeded by juce::Random()
PinkConstruct ==
    /\ pinkNoise = << >>
    /\ \E seed \in PinkSeeds : pinkNoise' = << PinkNew(seed) >>
    /\ buffer' = << >>
    /\ lastCall' = "PinkNoiseGenerator"
    /\ PinkFrame

\* reset() (lines 23-30)
PinkCallReset ==
    /\ pinkNoise # << >>
    /\ pinkNoise' = << PinkReset(pinkNoise[1]) >>
    /\ buffer' = << >>
    /\ lastCall' = "PinkNoiseGenerator::reset"
    /\ PinkFrame

\* nextSample() (lines 32-54)
PinkCallNextSample ==
    /\ pinkNoise # << >>
    /\ pinkNoise[1].counter < MaxPinkCalls
    /\ pinkNoise[1].random.pos < MaxPinkDraws
    /\ \E r \in { PinkNextSample(pinkNoise[1]) } :
           /\ pinkNoise' = << r.gen >>
           /\ buffer' = << << r.out >> >>
    /\ lastCall' = "nextSample"
    /\ PinkFrame

NextPink ==
    \/ PinkConstruct
    \/ PinkCallReset
    \/ PinkCallNextSample

SpecPink == InitNoise /\ [][NextPink]_vars

\* ------------------------------------------------------------------------
\* The envelope follower of addAnalogNoise on its own, on the first channel
\* of a prepared low-pass engine: one sample per step. blockIn holds the
\* samples it was handed since prepare() or reset()
\* ------------------------------------------------------------------------
MaxEnvelopeSamples == 4       \* samples between two reset()s

EnvelopeSamples == {0, Q \div 10, 0 - Q}

\* lines 299-303 on one sample
EnvelopeStep(x) ==
    /\ prepared
    /\ Len(blockIn) < MaxEnvelopeSamples
    /\ envelopeState' =
         [envelopeState EXCEPT ![1] = Envelope(@, FAbs(x))]
    /\ blockIn' = Append(blockIn, x)
    /\ lastCall' = "envelope"
    /\ UNCHANGED << variant, prepared, sampleRate, numChannels, mix,
                    toneFrequency, noiseAmount, noiseHPFrequency,
                    noiseHPAlpha, envelopeAttack, envelopeRelease, preGain,
                    postGain, toneFilter, tiltEQ, noiseHPState,
                    noiseHPPrevInput, pinkNoise, dryBuffer, buffer, pc,
                    toneOut, postIn, wet, stages, blended, lastNoise, oob,
                    entry, reads, cleared, maximumBlockSize, blocks, control,
                    recomputed >>

\* a sample from the host's range, or one exactly as large as the envelope
EnvelopeFollow ==
    /\ prepared
    /\ \E x \in EnvelopeSamples \cup {envelopeState[1]} : EnvelopeStep(x)

NextEnvelope ==
    \/ QuietPrepare
    \/ Reset
    \/ EnvelopeFollow

SpecEnvelope == InitNoise /\ [][NextEnvelope]_vars

\* ------------------------------------------------------------------------
\* Both variants over consecutive blocks of a few samples, the parameters
\* set before prepare() so that the gains do not ramp
\* ------------------------------------------------------------------------
SplitBlockSize == 3           \* spec.maximumBlockSize, and the block length
MaxSplitBlocks == 2           \* process() calls per behaviour

SplitPrepare ==
    /\ ~prepared
    /\ \E sr \in SampleRates, ch \in ChannelCounts :
           \E seeds \in [1..ch -> Seeds] :
               Prepare(sr, ch, SplitBlockSize, seeds)

SplitSetMix == ~prepared /\ \E v \in MixValues : SetMix(v)
SplitSetNoise == ~prepared /\ \E v \in AnyNoiseAmounts : SetNoise(v)

SplitProcess ==
    /\ prepared
    /\ blocks < MaxSplitBlocks
    /\ \E ch \in ChannelCounts :
           \E buf \in InputBlocks(ch, SplitBlockSize) :
               Fits(buf) /\ Process(buf, 0)

NextSplit ==
    \/ SplitPrepare
    \/ RaceSetDrive
    \/ RaceSetOutput
    \/ SplitSetMix
    \/ SplitSetNoise
    \/ SplitProcess

SpecSplit == Init /\ [][NextSplit]_vars

\* ------------------------------------------------------------------------
\* The tilt variant's prepare() and setTone() alone, with requests that lie
\* within 0.001 of each other and requests that do not, at two sample rates
\* ------------------------------------------------------------------------
ToneRates == {44100, 48000}
ToneRequests ==
    {0, Q \div 1000, 2 * (Q \div 1000), 3 * (Q \div 1000), Q \div 2,
     Q \div 2 + Q \div 1000, 0 - Q, Q}

TonePrepare ==
    \E sr \in ToneRates, ch \in ChannelCounts :
        \E seeds \in [1..ch -> Seeds] : Prepare(sr, ch, MaxBlockSize, seeds)

ToneSetTone == \E v \in ToneRequests : SetToneTilt(v)

NextTone ==
    \/ TonePrepare
    \/ ToneSetTone

SpecTone == InitRace /\ [][NextTone]_vars

\* ------------------------------------------------------------------------
\* The low-pass variant with process() on the audio thread and setNoise on
\* the control thread. noiseAmount is a plain float and nothing orders the
\* two threads: the store of setNoise runs between the statements of
\* process(), of which the test of line 207 and the read of line 280 are
\* stepped apart
\* ------------------------------------------------------------------------
\* process (buffer) from its entry to the test of noiseAmount (lines
\* 177-207)
AudioNoiseBegin(buf) ==
    /\ variant = "lowpass"
    /\ Fits(buf)
    /\ ProcessFrame(buf)
    /\ \E s \in { ToneStage(WaveshapeStage(PreGainStage(DryStage(
                        AtEntry(buf))), 0), 0) } :
           /\ buffer' = s.buffer
           /\ preGain' = s.preGain
           /\ dryBuffer' = s.dryBuffer
           /\ toneFilter' = s.toneFilter
           /\ toneOut' = s.toneOut
           /\ stages' = s.stages
           /\ oob' = s.oob
           /\ reads' = [NoReads EXCEPT !.pre = s.preGains,
                                       !.noise = << noiseAmount >>]
    /\ postIn' = << >>
    /\ wet' = << >>
    /\ blended' = FALSE
    /\ lastNoise' = NoNoise
    /\ pc' = IF NoiseEnabled(noiseAmount) THEN "noise" ELSE "post"
    /\ UNCHANGED << postGain, tiltEQ, envelopeState, noiseHPState,
                    noiseHPPrevInput, pinkNoise >>

\* the engine in the middle of a process call, as its stages see it
Resumed ==
    [AtEntry(buffer) EXCEPT !.toneOut = toneOut, !.stages = stages,
                            !.oob = oob]

\* addAnalogNoise (buffer), entered after the test of line 207 passed:
\* noiseAmount is read again at line 280
AudioNoiseInject ==
    /\ pc = "noise"
    /\ \E s \in { AddAnalogNoise(Resumed, 0, NoiseGain(noiseAmount)) } :
           /\ buffer' = s.buffer
           /\ envelopeState' = s.envelopeState
           /\ noiseHPState' = s.noiseHPState
           /\ noiseHPPrevInput' = s.noiseHPPrevInput
           /\ pinkNoise' = s.pinkNoise
           /\ lastNoise' = s.lastNoise
           /\ stages' = s.stages
    /\ reads' = [reads EXCEPT !.noise = Append(@, noiseAmount)]
    /\ pc' = "post"
    /\ UNCHANGED << variant, prepared, maximumBlockSize, sampleRate,
                    numChannels, mix, toneFrequency, noiseAmount,
                    noiseHPFrequency, noiseHPAlpha, envelopeAttack,
                    envelopeRelease, preGain, postGain, toneFilter, tiltEQ,
                    dryBuffer, blockIn, toneOut, postIn, wet, blended, oob,
                    entry, lastCall, cleared, blocks, control, recomputed >>

\* setNoise (newNoise) on the control thread: the store of line 164
ControlSetNoise ==
    /\ pc # "idle"
    /\ variant = "lowpass"
    /\ control.at = "idle"
    /\ control.calls < MaxSetterCalls
    /\ \E v \in AnyNoiseAmounts : noiseAmount' = v
    /\ control' = [control EXCEPT !.calls = @ + 1]
    /\ UNCHANGED << variant, prepared, maximumBlockSize, sampleRate,
                    numChannels, mix, toneFrequency, noiseHPFrequency,
                    noiseHPAlpha, envelopeAttack, envelopeRelease, preGain,
                    postGain, toneFilter, tiltEQ, envelopeState,
                    noiseHPState, noiseHPPrevInput, pinkNoise, dryBuffer,
                    callVars, lastCall, cleared, blocks, recomputed >>

RaceSetNoise == ~prepared /\ AnySetNoise

\* process (buffer) entered with any block that fits
NoiseRaceProcess ==
    /\ blocks < MaxBlocks
    /\ \E buf \in InputBlocks(numChannels, MaxBlockSize) :
           AudioNoiseBegin(buf)

NextNoiseRace ==
    \/ QuietPrepare
    \/ RaceSetDrive
    \/ RaceSetOutput
    \/ RaceSetMix
    \/ RaceSetNoise
    \/ NoiseRaceProcess
    \/ AudioNoiseInject
    \/ AudioPostGain
    \/ AudioBlendSample
    \/ ControlSetNoise

SpecNoiseRace == InitNoise /\ [][NextNoiseRace]_vars

\* ------------------------------------------------------------------------
\* Properties
\* ------------------------------------------------------------------------
\* the last call was process(), and it has returned
Returned == lastCall = "process" /\ pc = "idle"

\* some sample of a buffer satisfies P
AnySample(buf, P(_)) ==
    \E c \in 1..Len(buf) : \E i \in 1..Len(buf[c]) : P(buf[c][i])

IsSignal(x) == IsFinite(x) /\ x # 0

\* C1: with mix = 0, after a process call made within its preconditions
\* every sample of the buffer equals its value before the call
MixZeroReturnsInput ==
    (Returned /\ entry.ok /\ mix = 0) => buffer = blockIn

\* C2: with mix = 1 the blend loop does not run, and the buffer process()
\* returns is the buffer as it left the output gain
MixOneReturnsWet ==
    (Returned /\ mix = Q) => (~blended /\ buffer = wet)

\* a call within its preconditions returned at mix = 1 with a wet signal
\* that is not silent and differs from the input
MixOneReturnsWetSeen ==
    /\ Returned /\ entry.ok /\ mix = Q
    /\ AnySample(wet, IsSignal)
    /\ wet # blockIn

\* C3: the stored mix lies in [0, 1]
MixInUnitRange == IsFinite(mix) /\ 0 <= mix /\ mix <= Q

\* C4: the cutoff, the tilt and the noise high-pass cutoff handed to the
\* coefficient computations lie in their documented domains
FilterArgumentsInDomain ==
    /\ 1000 <= toneFrequency /\ toneFrequency <= 20000
    /\ 0 - Q <= tiltEQ.tilt /\ tiltEQ.tilt <= Q
    /\ 20 <= noiseHPFrequency /\ noiseHPFrequency <= 1000

\* C5: a process call at noise amount 0 hands the tone filter's output to
\* the output gain as it is, and leaves the envelope, the noise high-pass
\* memory and the pink-noise generators as they were
ZeroNoiseSkipsInjection ==
    [][(lastCall' = "process" /\ pc' = "idle" /\ noiseAmount = 0)
           => /\ postIn' = toneOut'
              /\ ~lastNoise'.ran
              /\ UNCHANGED << envelopeState, noiseHPState, noiseHPPrevInput,
                              pinkNoise >>]_vars

\* a call within its preconditions of the low-pass variant returned at
\* noise amount 0 with a signal leaving the tone filter
ZeroNoiseSkipsInjectionSeen ==
    /\ Returned /\ entry.ok /\ variant = "lowpass" /\ noiseAmount = 0
    /\ AnySample(toneOut, IsSignal)
    /\ postIn = toneOut

\* C6: in a process call made within its preconditions with the noise
\* amount in (0, 1], no sample receives a noise value larger in magnitude
\* than the gain of -60 dB + 30 dB * noiseAmount
NoiseWithinCeiling ==
    (Returned /\ entry.ok /\ lastNoise.ran
     /\ FGreater(noiseAmount, 0) /\ ~FGreater(noiseAmount, Q))
        => /\ lastNoise.peak # NotANumber
           /\ lastNoise.peak <= lastNoise.gain * Q

\* the coefficients of the tone filters
Coefficients ==
    << toneFilter.coeffs, tiltEQ.a0, tiltEQ.a1, tiltEQ.b1, noiseHPAlpha,
       envelopeAttack, envelopeRelease >>

\* C7: reset() leaves all transient state zero, and leaves the parameters,
\* the coefficients, the sample rate and the array sizes as they were
ResetClearsTransientOnly ==
    [][lastCall' = "reset"
           => /\ Dirty' = {}
              /\ UNCHANGED << mix, toneFrequency, noiseAmount,
                              noiseHPFrequency, sampleRate >>
              /\ tiltEQ'.tilt = tiltEQ.tilt
              /\ Coefficients' = Coefficients
              /\ Sizes' = Sizes]_vars

\* reset() has just cleared an envelope, a noise high-pass memory, a
\* pink-noise generator and a tone filter that were not zero
ResetClearsTransientOnlySeen ==
    /\ lastCall = "reset"
    /\ {"envelopeState", "noiseHPState", "noiseHPPrevInput", "pinkNoise",
        "toneFilter"} \subseteq cleared

\* the stages of a call of this variant at this noise amount
ExpectedStages ==
    IF variant = "lowpass" /\ FGreater(noiseAmount, 0)
    THEN << "dry", "pre", "shape", "tone", "noise", "post", "mix" >>
    ELSE << "dry", "pre", "shape", "tone", "post", "mix" >>

\* the dry buffer holds the samples the call was handed
DryHoldsInput ==
    \A c \in 1..Len(blockIn) : \A i \in 1..Len(blockIn[c]) :
        /\ c <= Len(dryBuffer) /\ i <= Len(dryBuffer[c])
        /\ dryBuffer[c][i] = blockIn[c][i]

\* C8: a process call runs dry copy, pre-gain, waveshaping, tone filter,
\* noise injection if enabled, output gain and mix in this order, and its
\* dry copy holds the input as it was handed over
StagesInOrder ==
    Returned => /\ stages = ExpectedStages
                /\ entry.ok => DryHoldsInput

\* a call within its preconditions ran all seven stages on a signal and
\* blended it
StagesInOrderSeen ==
    /\ Returned /\ entry.ok
    /\ Len(stages) = 7
    /\ blended
    /\ AnySample(blockIn, IsSignal) /\ AnySample(wet, IsSignal)
    /\ buffer # blockIn

\* C9: a process call made within its preconditions accesses no array
\* outside its bounds, returns, and leaves every array size as it was
InBoundsWithinPreconditions ==
    (lastCall = "process" /\ entry.ok)
        => /\ oob = {}
           /\ pc = "idle"
           /\ Sizes = entry.sizes

\* a call returned that was handed exactly the prepared channel count and
\* block size, on two channels
InBoundsWithinPreconditionsSeen ==
    /\ Returned /\ entry.ok
    /\ NumChannelsOf(blockIn) = numChannels /\ numChannels = 2
    /\ NumSamplesOf(blockIn) = maximumBlockSize

\* the coefficients updateCoefficients computes from one tilt value
CoefficientSets ==
    { Pending(TiltUpdateCoefficients([tiltEQ EXCEPT !.tilt = v])) :
      v \in RaceTiltValues }

\* C12: when process() has returned from a block during which setMix or
\* setTone ran on the other thread, every sample of the block was blended
\* with one and the same value of mix, and every sample was filtered with
\* one and the same coefficient set (a0, a1, b1), which is the set computed
\* from a single tilt value
BlockReadsOneValue ==
    Returned =>
        /\ \A j, k \in 1..Len(reads.mix) : reads.mix[j] = reads.mix[k]
        /\ \A j, k \in 1..Len(reads.coeffs) :
               reads.coeffs[j] = reads.coeffs[k]
        /\ \A j \in 1..Len(reads.coeffs) : reads.coeffs[j] \in CoefficientSets

\* the gain h a setter leaves, from the gain g it found: a new target starts
\* a ramp of stepsToTarget samples from the current value, with the step
\* that covers the distance in that many samples (to the rounding of the
\* step)
RampStarted(g, h) ==
    h.target # g.target =>
        /\ h.current = g.current
        /\ h.countdown = g.stepsToTarget
        /\ h.countdown > 1
        /\ Abs(h.target - g.current - h.step * h.countdown) < h.countdown

\* the gain values vals of the samples of one block, from the gain g at the
\* entry of process(): one step further per sample while the ramp lasts,
\* the target from the sample at which it has elapsed
RampFollowed(g, vals) ==
    \A i \in 1..Len(vals) :
        LET prev == IF i = 1 THEN g.current ELSE vals[i - 1]
        IN  IF i < g.countdown THEN vals[i] = prev + g.step
            ELSE /\ vals[i] = g.target
                 /\ i = g.countdown =>
                        Abs(vals[i] - prev - g.step) < g.stepsToTarget

TiltZeroIsIdentity ==
    (/\ Returned
     /\ tiltEQ.tilt = 0
     /\ Pending(tiltEQ) = Pending(TiltUpdateCoefficients(tiltEQ)))
        => \A c \in 1..Len(blockIn) :
               IsFinite(tiltEQ.y1[c]) => tiltEQ.y1[c] = tiltEQ.x1[c]

\* the tone control at the position that colours the sound least: the tilt
\* at 0, the low-pass at the top of its range
ToneNeutral ==
    IF variant = "tilt" THEN tiltEQ.tilt = 0
    ELSE toneFrequency = 20000

\* every sample of the block handed to process() is finite and below the
\* largest float
OrdinaryInput ==
    \A c \in 1..Len(blockIn) : \A i \in 1..Len(blockIn[c]) :
        IsFinite(blockIn[c][i]) /\ Abs(blockIn[c][i]) < Huge

\* C15: when process() has returned from a call made within its
\* preconditions on an ordinary block, with drive and output at 0 dB, mix
\* at 100 %, noise at 0 and the tone neutral, every sample of the buffer
\* is tubeWaveshape of the sample that came in at its place
FlatSettingsOnlyShape ==
    (/\ Returned
     /\ entry.ok
     /\ OrdinaryInput
     /\ preGain.target = Q
     /\ postGain.target = Q
     /\ mix = Q
     /\ noiseAmount = 0
     /\ ToneNeutral)
        => \A c \in 1..Len(buffer) : \A i \in 1..Len(buffer[c]) :
               buffer[c][i] = tubeWaveshape(blockIn[c][i])

\* "roughly 1.2": 1.3
RoughPeak == (13 * Q) \div 10

\* C16: at 44.1 kHz, mono, with the drive at 20 dB, the output at 0 dB, the
\* mix at 100 %, no noise and the tone neutral, no sample of a block of
\* the 1 kHz sine of amplitude 0.5 leaves process() with a magnitude above
\* roughly 1.2
SinePeakBounded ==
    (/\ Returned
     /\ entry.ok
     /\ sampleRate = 44100
     /\ preGain.target = 10 * Q
     /\ postGain.target = Q
     /\ mix = Q
     /\ noiseAmount = 0
     /\ ToneNeutral)
        => \A i \in 1..Len(buffer[1]) :
               IsFinite(buffer[1][i]) /\ Abs(buffer[1][i]) <= RoughPeak

\* 0.15 * x^2 / (1 + |x|), in float arithmetic
EvenTerm(x) == FDiv(FMul(bias, FMul(x, x)), FAdd(Q, FAbs(x)))

\* the finite samples handed to the process() call that has returned
ShapedInputs ==
    IF Returned
    THEN { blockIn[c][i] : c \in 1..Len(blockIn), i \in 1..MaxBlockSize }
         \cap (0 - FltMax)..FltMax
    ELSE {}

ProbeLength == 64             \* samples of a probe signal

RECURSIVE TiltProbe(_, _, _)
\* TiltEQ::processSample over the samples of xs, from the delay line and
\* the number of samples done in acc; the last sample returned is acc.d.y1
TiltProbe(t, acc, xs) ==
    IF acc.n = Len(xs) THEN acc
    ELSE TiltProbe(t, [d |-> TiltProcessSample(t, acc.d, xs[acc.n + 1]).d,
                       n |-> acc.n + 1], xs)

\* the magnitude of the last sample the tilt EQ returns for xs from a
\* cleared delay line
TiltSettled(t, xs) ==
    Abs(TiltProbe(t, [d |-> [x1 |-> 0, y1 |-> 0], n |-> 0], xs).d.y1)

\* a constant signal, and one of the same magnitude that changes sign at
\* every sample
ConstantProbe == [i \in 1..ProbeLength |-> Q]
AlternatingProbe == [i \in 1..ProbeLength |-> IF i % 2 = 0 THEN Q ELSE 0 - Q]

\* C18: with the coefficients computed from a tilt above 0 the tilt EQ
\* returns more of an alternating signal than of a constant one of the
\* same magnitude, and with a tilt below 0 more of the constant one
TiltPositiveIsBright ==
    Pending(tiltEQ) = Pending(TiltUpdateCoefficients(tiltEQ)) =>
        /\ tiltEQ.tilt > 0 =>
               TiltSettled(tiltEQ, AlternatingProbe)
                   > TiltSettled(tiltEQ, ConstantProbe)
        /\ tiltEQ.tilt < 0 =>
               TiltSettled(tiltEQ, ConstantProbe)
                   > TiltSettled(tiltEQ, AlternatingProbe)

\* process() is called right after reset() on a block of silence, within
\* its preconditions, and returns
SilenceAfterReset ==
    /\ lastCall = "reset"
    /\ lastCall' = "process"
    /\ pc' = "idle"
    /\ entry'.ok
    /\ blockIn' = ZeroBlock(Len(blockIn'), NumSamplesOf(blockIn'))

\* C19: a process() call on silence right after reset() leaves the
\* envelope of every channel at exactly 0 and, when the noise is on, no
\* sample's noise level above noiseGain * floorRatio (the level at an
\* envelope of 0, below which none can be)
SilenceKeepsNoiseFloor ==
    [][SilenceAfterReset =>
           /\ \A c \in 1..Len(envelopeState') : envelopeState'[c] = 0
           /\ NoiseEnabled(noiseAmount) =>
                  /\ lastNoise'.ran
                  /\ lastNoise'.level
                         = FMul(NoiseGain(noiseAmount), floorRatio)]_vars

\* a second block, of silence, has been processed with the noise on: the
\* envelopes are 0, the noise level is not, and noise was added
SilenceKeepsNoiseFloorSeen ==
    /\ Returned
    /\ blocks = 2
    /\ blockIn = ZeroBlock(Len(blockIn), MaxBlockSize)
    /\ lastNoise.ran
    /\ lastNoise.level > 0
    /\ \A c \in 1..Len(blockIn) : envelopeState[c] = 0
    /\ lastNoise.peak > 0

\* C20: a setter call that leaves the stored tone frequency, noise
\* high-pass frequency and tilt as they were (its argument is the stored
\* value, or it is another setter) computes no coefficient anew and leaves
\* every coefficient as it was
EqualArgumentSkipsRecompute ==
    [][(/\ lastCall' = "set"
        /\ toneFrequency' = toneFrequency
        /\ noiseHPFrequency' = noiseHPFrequency
        /\ tiltEQ'.tilt = tiltEQ.tilt)
           => /\ recomputed' = {}
              /\ Coefficients' = Coefficients]_vars

\* C11: while the sample rate is not positive, prepare and the setters
\* leave every coefficient (tone filter, noise high-pass alpha, tilt a0, a1,
\* b1, envelope attack and release) as it was
CoefficientsKeptWithoutRate ==
    [][(sampleRate' <= 0 /\ lastCall' \in {"prepare", "set"})
           => Coefficients' = Coefficients]_vars

\* C10: a process call on a buffer whose channel count differs from the
\* prepared one accesses no dry-buffer channel and no per-channel state
\* entry at or beyond the prepared count
OnlyPreparedChannelsTouched ==
    (lastCall = "process" /\ prepared /\ NumChannelsOf(blockIn) # numChannels)
        => oob = {}

\* the sizes prepare() of this variant gives the arrays it sizes
PreparedSizes ==
    /\ Sizes.dryChannels = numChannels
    /\ Sizes.drySamples = maximumBlockSize
    /\ IF variant = "lowpass"
       THEN /\ Sizes.envelopeState = numChannels
            /\ Sizes.noiseHPState = numChannels
            /\ Sizes.noiseHPPrevInput = numChannels
            /\ Sizes.pinkNoise = numChannels
       ELSE /\ Sizes.x1 = numChannels
            /\ Sizes.y1 = numChannels

\* C21: prepare() leaves every per-channel array with channelCount entries
\* and the dry buffer with channelCount x maximumBlockSize samples, and no
\* other call (process, reset, a setter) changes the size of an array
SizesSetByPrepareOnly ==
    [][/\ lastCall' = "prepare" => PreparedSizes'
       /\ lastCall' # "prepare" => Sizes' = Sizes]_vars

\* a two-channel engine of the low-pass variant, prepared, has processed a
\* block with noise and still holds arrays of the prepared sizes
SizesSetByPrepareOnlySeen ==
    /\ Returned /\ entry.ok /\ variant = "lowpass" /\ lastNoise.ran
    /\ numChannels = 2
    /\ PreparedSizes

\* the rows the n-th nextSample() call after reset() redraws
RowsDueAt(n) == { i \in 0..(numRows - 1) : n % Pow2(i) = 0 }

RECURSIVE SumOf(_, _)
\* the sum of the first k entries of a float sequence
SumOf(vec, k) == IF k = 0 THEN 0 ELSE FAdd(SumOf(vec, k - 1), vec[k])

\* the value the generator g draws d nextFloat() calls from now
BipolarAhead(g, d) ==
    NextBipolar([g.random EXCEPT !.pos = g.random.pos + d])

Engine ==
    [buffer |-> buffer, toneFilter |-> toneFilter, tiltEQ |-> tiltEQ,
     envelopeState |-> envelopeState, noiseHPState |-> noiseHPState,
     noiseHPPrevInput |-> noiseHPPrevInput, pinkNoise |-> pinkNoise]

\* what belongs to channel c in an engine s: its samples and its entries of
\* the per-channel state
ChannelOf(s, c) ==
    [out |-> At(s.buffer, c, << >>),
     env |-> At(s.envelopeState, c, 0),
     hpY |-> At(s.noiseHPState, c, 0),
     hpX |-> At(s.noiseHPPrevInput, c, 0),
     gen |-> At(s.pinkNoise, c, 0),
     tone |-> At(s.toneFilter.state, c, 0),
     x1 |-> At(s.tiltEQ.x1, c, 0),
     y1 |-> At(s.tiltEQ.y1, c, 0)]

\* the samples another channel could have held instead
OtherSamples == {0, Q \div 4}

\* the buffer with channel d replaced by other samples
OtherInputs(buf, d) ==
    { [buf EXCEPT ![d] = [i \in 1..Len(buf[d]) |-> x]] : x \in OtherSamples }

\* C23: a process call within its preconditions leaves the state of every
\* channel the buffer does not hold as it was, and gives every channel of
\* the buffer the output and the state it would have got with any other
\* input on another channel
ChannelsIndependent ==
    [][(lastCall' = "process" /\ pc' = "idle" /\ entry'.ok)
           => /\ \A c \in 1..numChannels :
                     c > Len(blockIn')
                        => /\ ChannelOf(Engine', c).out = << >>
                           /\ [ChannelOf(Engine', c) EXCEPT !.out = << >>]
                              = [ChannelOf(Engine, c) EXCEPT !.out = << >>]
              /\ \A c \in 1..Len(blockIn') :
                   \A d \in (1..Len(blockIn')) \ {c} :
                     \A buf \in OtherInputs(blockIn', d) :
                        \E s \in { RunStages(StageOrder, AtEntry(buf), 0) } :
                            ChannelOf(s, c) = ChannelOf(Engine', c)]_vars

\* after a two-channel call with noise left the two channels in different
\* states, a one-channel call with noise on the same engine has returned
\* a signal
ChannelsIndependentSeen ==
    /\ Returned /\ entry.ok /\ numChannels = 2 /\ Len(blockIn) = 1
    /\ blocks = 2
    /\ lastNoise.ran
    /\ envelopeState[1] # 0 /\ envelopeState[2] # 0
    /\ envelopeState[1] # envelopeState[2]
    /\ pinkNoise[2].counter # 0
    /\ AnySample(buffer, IsSignal) /\ buffer # blockIn

\* the smaller and the larger of two floats
Least(a, b) == IF a <= b THEN a ELSE b
Largest(a, b) == IF a >= b THEN a ELSE b

RECURSIVE LargestOf(_, _)
\* the largest magnitude among the first k samples of xs
LargestOf(xs, k) ==
    IF k = 0 THEN 0 ELSE Largest(FAbs(xs[k]), LargestOf(xs, k - 1))

\* the sample the envelope follower was handed last
LastSample == blockIn[Len(blockIn)]

EnvelopeRounding == (2 * Q) \div Q

BlockPart(buf, from, to) == [c \in 1..Len(buf) |-> SubSeq(buf[c], from, to)]

\* the engine a process call left, handed the next buffer
Continued(s, buf) ==
    [s EXCEPT !.buffer = buf, !.toneOut = << >>, !.postIn = << >>,
              !.wet = << >>, !.stages = << >>, !.blended = FALSE,
              !.lastNoise = NoNoise, !.oob = {}, !.preGains = << >>,
              !.postGains = << >>, !.done = 0]

\* the engine s holds the state of the engine now, and the engines first
\* and s returned the buffer now when their buffers are joined
JoinedIsEngine(first, s) ==
    /\ buffer = [c \in 1..Len(buffer) |-> first.buffer[c] \o s.buffer[c]]
    /\ [f \in DOMAIN Engine \ {"buffer"} |-> s[f]]
         = [f \in DOMAIN Engine \ {"buffer"} |-> Engine[f]]

\* process() on the first k samples of a buffer
SplitFirst(buf, k) == RunStages(StageOrder, AtEntry(BlockPart(buf, 1, k)), 0)

\* process() on the rest of the buffer, on the engine the first call left
SplitSecond(first, buf, k) ==
    RunStages(StageOrder,
              Continued(first, BlockPart(buf, k + 1, NumSamplesOf(buf))), 0)

\* both gains have reached their targets
GainsSettled == preGain.countdown = 0 /\ postGain.countdown = 0

\* C25: with the gains settled, a process call within its preconditions
\* gives the output and leaves the per-channel state (tone filter, tilt
\* delay line, envelope, noise high-pass memory, pink-noise generators)
\* that two calls on the two parts of its buffer give, wherever the buffer
\* is split
SplitBlocksAgree ==
    [][(lastCall' = "process" /\ pc' = "idle" /\ entry'.ok /\ GainsSettled)
           => \A k \in 1..(NumSamplesOf(blockIn') - 1) :
                  \E first \in { SplitFirst(blockIn', k) } :
                      \E second \in { SplitSecond(first, blockIn', k) } :
                          JoinedIsEngine(first, second)']_vars

\* a call with settled gains, noise and a blend has returned a signal and
\* moved the envelope and the generators
SplitBlocksAgreeSeen ==
    /\ Returned /\ entry.ok /\ GainsSettled
    /\ NumSamplesOf(blockIn) >= 2
    /\ lastNoise.ran /\ blended
    /\ preGain.current # 0 /\ postGain.current # 0
    /\ AnySample(buffer, IsSignal) /\ buffer # blockIn
    /\ ~AnySample(blockIn, LAMBDA x : x = Huge)
    /\ envelopeState[1] # 0
    /\ blocks = 2
    /\ pinkNoise[1].counter = 2 * NumSamplesOf(blockIn)

\* C26: after every call of prepare() the envelopes, the noise high-pass
\* memories and the tilt delay lines are all zero, as after reset()
PrepareZeroesTransient ==
    lastCall = "prepare"
        => /\ ~NonZero(envelopeState)
           /\ ~NonZero(noiseHPState)
           /\ ~NonZero(noiseHPPrevInput)
           /\ ~NonZero(tiltEQ.x1)
           /\ ~NonZero(tiltEQ.y1)

\* a0, a1 and b1 are those updateCoefficients() computes from the stored
\* tilt at the sample rate of the engine
CoefficientsMatchTilt ==
    /\ tiltEQ.sampleRate = sampleRate
    /\ Pending(tiltEQ) = Pending(TiltUpdateCoefficients(tiltEQ))

\* C27: once prepared, a0, a1 and b1 are always those computed from the
\* stored tilt at the current sample rate; after every setTone(v) the stored
\* tilt is within 0.001 of v, and a request within 0.001 of the stored tilt
\* changes neither tilt nor coefficients
TiltFollowsRequests ==
    /\ [](prepared => CoefficientsMatchTilt)
    /\ [][\A v \in ToneRequests :
            (prepared /\ lastCall' = "set"
             /\ tiltEQ' = TiltSetTilt(tiltEQ, v)
             /\ recomputed' = TiltRecomputed(tiltEQ, v))
                => /\ Abs(tiltEQ'.tilt - v) <= Q \div 1000
                   /\ Abs(v - tiltEQ.tilt) <= Q \div 1000
                         => tiltEQ' = tiltEQ]_vars

\* a prepared engine that stores a tilt of 0.002 has just been handed a
\* request within 0.001 of it, and computed nothing
TiltFollowsRequestsSeen ==
    /\ prepared /\ lastCall = "set" /\ recomputed = {}
    /\ tiltEQ.tilt = 2 * (Q \div 1000)
    /\ sampleRate = 48000

\* C28: in every state of a PinkNoiseGenerator the running sum is the sum
\* of the 12 rows and every row lies in [-1, 1], and every sample returned
\* lies in [-1, 1]
PinkSumAndRange ==
    pinkNoise # << >>
        => /\ pinkNoise[1].runningSum = SumOf(pinkNoise[1].rows, numRows)
           /\ \A i \in 1..numRows :
                  /\ 0 - Q <= pinkNoise[1].rows[i]
                  /\ pinkNoise[1].rows[i] <= Q
           /\ buffer # << >>
                 => (0 - Q <= buffer[1][1] /\ buffer[1][1] <= Q)

\* a generator that had drawn before its last reset() has returned a
\* non-zero sample on its 8th call, with four rows redrawn several times
\* to values of both signs and a non-zero running sum
PinkSumAndRangeSeen ==
    /\ lastCall = "nextSample"
    /\ pinkNoise[1].counter = Pow2(3)
    /\ pinkNoise[1].random.pos > DrawsUpTo(Pow2(3))
    /\ pinkNoise[1].runningSum # 0
    /\ \E i, j \in 1..numRows : pinkNoise[1].rows[i] * pinkNoise[1].rows[j] < 0
    /\ buffer[1][1] # 0

\* C29: a process call that injects noise does so with the gain of the
\* noise amount its test of line 207 read, an amount above 0, and never
\* with the gain of a noise amount of 0
NoiseGainFromTestedAmount ==
    (lastNoise.ran /\ Len(reads.noise) = 2)
        => /\ reads.noise[2] = reads.noise[1]
           /\ FGreater(reads.noise[2], 0)
           /\ lastNoise.gain # NoiseGain(0)

\* C30: reset() leaves every pink-noise generator as it was constructed,
\* the position in its random sequence included, so that the noise after
\* reset() repeats the noise after prepare()
ResetRestoresNoiseSequence ==
    lastCall = "reset"
        => \A c \in 1..Len(pinkNoise) :
               pinkNoise[c] = PinkNew(pinkNoise[c].random.seed)

====
